---- MODULE Spec2Model ----
(***************************************************************************)
(* A model of gvisdata's DataTable (src/lib/gvisdata.js): the column       *)
(* descriptor parser, the schema normalizer, the data binder and the       *)
(* operations of a constructed table.                                      *)
(*                                                                         *)
(* JavaScript values are tagged records [k |-> kind, v |-> payload]:       *)
(*   string, number, boolean, null, undefined, date,                       *)
(*   array  (v: a sequence of values),                                     *)
(*   object (v: a sequence of <<key, value>> pairs in for-in order).       *)
(***************************************************************************)
EXTENDS Integers, Sequences, FiniteSets, TLC

VARIABLES
    _columns,          \* this._columns: the parsed column descriptors
    _data,             \* this._data: the stored rows
    customProperties,  \* this.customProperties: the table's custom properties
    constructedFrom,  \* the tableDescription the constructor was given
    lastOp,            \* the last call: its name, its arguments and its outcome
    prevData           \* this._data before the last call

vars == <<_columns, _data, customProperties, constructedFrom, lastOp, prevData>>

-----------------------------------------------------------------------------
(* JavaScript values *)

Str(s) == [k |-> "string", v |-> s]
Num(n) == [k |-> "number", v |-> n]
Bool(b) == [k |-> "boolean", v |-> b]
Null == [k |-> "null", v |-> 0]
Undefined == [k |-> "undefined", v |-> 0]
DateV(fields) == [k |-> "date", v |-> fields]
Arr(elems) == [k |-> "array", v |-> elems]
Obj(pairs) == [k |-> "object", v |-> pairs]

EmptyObj == Obj(<<>>)

Min(a, b) == IF a < b THEN a ELSE b

Range(s) == {s[n] : n \in DOMAIN s}

\* DataTable._t
isString(v) == v.k = "string"
isArray(v) == v.k = "array"
isDate(v) == v.k = "date"
\* typeof(v) == 'object': plain objects, arrays, dates and null
isObject(v) == v.k \in {"object", "array", "date", "null"}

type(v) ==
    IF isString(v) THEN "string"
    ELSE IF isArray(v) THEN "array"
    ELSE IF isDate(v) THEN "date"
    ELSE IF isObject(v) THEN "object"
    ELSE v.k

\* v != null
Truthy_NotNull(v) == v.k \notin {"null", "undefined"}

\* JavaScript truthiness (if( v ), !v)
Truthy(v) ==
    CASE v.k \in {"null", "undefined"} -> FALSE
      [] v.k = "string" -> v.v # ""
      [] v.k = "number" -> v.v # 0
      [] v.k = "boolean" -> v.v
      [] OTHER -> TRUE

\* v === undefined
IsNullish_UndefinedOnly(v) == v.k = "undefined"

\* v == null  (null or undefined)
IsNullish(v) == v.k \in {"null", "undefined"}

\* String(v) for the values used as property keys
ToKey(v) ==
    CASE v.k = "string" -> v.v
      [] v.k = "number" -> ToString(v.v)
      [] v.k = "boolean" -> IF v.v THEN "true" ELSE "false"
      [] v.k = "null" -> "null"
      [] v.k = "undefined" -> "undefined"
      [] v.k = "date" -> "[date]"
      [] v.k = "array" -> "[array]"
      [] OTHER -> "[object Object]"

\* the keys a for-in loop visits, in order
Keys(v) ==
    CASE v.k = "object" -> [n \in DOMAIN v.v |-> v.v[n][1]]
      [] v.k = "array" -> [n \in DOMAIN v.v |-> ToString(n - 1)]
      [] OTHER -> <<>>

HasKey(v, key) == \E n \in DOMAIN Keys(v) : Keys(v)[n] = key

\* v[key] where v is not null or undefined
Get(v, key) ==
    CASE v.k = "object" ->
            IF HasKey(v, key)
            THEN v.v[CHOOSE n \in DOMAIN v.v : v.v[n][1] = key][2]
            ELSE Undefined
      [] v.k = "array" ->
            IF HasKey(v, key)
            THEN v.v[CHOOSE n \in DOMAIN v.v : ToString(n - 1) = key]
            ELSE Undefined
      [] OTHER -> Undefined

\* DataTable._o
prop(obj) == IF ~isObject(obj) THEN <<>> ELSE Keys(obj)
val(obj) == IF ~isObject(obj) THEN <<>> ELSE [n \in DOMAIN Keys(obj) |-> Get(obj, Keys(obj)[n])]


-----------------------------------------------------------------------------
(* Text.  A JavaScript string is a TLA+ string; Head, Tail and SubSeq give  *)
(* its characters.  The model's alphabet is printable ASCII without the     *)
(* grave accent, three control characters and two characters outside ASCII. *)

\* the characters of codes 32 to 95 and of codes 97 to 126
AsciiLow == " !\"#$%&'()*+,-./0123456789:;<=>?@ABCDEFGHIJKLMNOPQRSTUVWXYZ[\\]^_"
AsciiHigh == "abcdefghijklmnopqrstuvwxyz{|}~"

\* tab, line feed, carriage return, e with acute accent, euro sign
OtherChars == <<"\t", "\n", "\r", "é", "€">>
OtherCodes == <<9, 10, 13, 233, 8364>>

\* c.charCodeAt(0)
Code(c) ==
    IF \E n \in 1..Len(AsciiLow) : SubSeq(AsciiLow, n, n) = c
    THEN 31 + (CHOOSE n \in 1..Len(AsciiLow) : SubSeq(AsciiLow, n, n) = c)
    ELSE IF \E n \in 1..Len(AsciiHigh) : SubSeq(AsciiHigh, n, n) = c
    THEN 96 + (CHOOSE n \in 1..Len(AsciiHigh) : SubSeq(AsciiHigh, n, n) = c)
    ELSE OtherCodes[CHOOSE n \in DOMAIN OtherChars : OtherChars[n] = c]

\* String.fromCharCode(code)
fromCharCode(code) ==
    IF code \in 32..95 THEN SubSeq(AsciiLow, code - 31, code - 31)
    ELSE IF code \in 97..126 THEN SubSeq(AsciiHigh, code - 96, code - 96)
    ELSE OtherChars[CHOOSE n \in DOMAIN OtherCodes : OtherCodes[n] = code]

HexDigits == "0123456789ABCDEF"

HexDigit(n) == SubSeq(HexDigits, n + 1, n + 1)

\* the two hexadecimal digits of the character code of c, or %uXXXX's four
Hex(c) ==
    IF Code(c) < 256
    THEN HexDigit(Code(c) \div 16) \o HexDigit(Code(c) % 16)
    ELSE "u" \o HexDigit(Code(c) \div 4096) \o HexDigit((Code(c) \div 256) % 16)
             \o HexDigit((Code(c) \div 16) % 16) \o HexDigit(Code(c) % 16)

\* s.indexOf(pat) + 1; 0 when pat does not occur in s
IndexOf(s, pat) ==
    LET at == {n \in 1..(Len(s) - Len(pat) + 1) : SubSeq(s, n, n + Len(pat) - 1) = pat}
    IN  IF at = {} THEN 0 ELSE CHOOSE n \in at : \A m \in at : n <= m

RECURSIVE Join(_, _)
\* Array.prototype.join on strings
Join(strings, sep) ==
    IF Len(strings) = 0 THEN ""
    ELSE IF Len(strings) = 1 THEN strings[1]
    ELSE strings[1] \o sep \o Join(Tail(strings), sep)

RECURSIVE Split(_, _)
\* String.prototype.split on a one-character separator
Split(s, sep) ==
    LET n == IndexOf(s, sep)
    IN  IF n = 0 THEN <<s>>
        ELSE <<SubSeq(s, 1, n - 1)>> \o Split(SubSeq(s, n + 1, Len(s)), sep)

RECURSIVE Expand(_, _, _)
\* the replacement text of String.prototype.replace: $$, $& and $' are
\* patterns standing for "$", the match and the text after the match
Expand(repl, match, after) ==
    LET n == IndexOf(repl, "$")
        next == IF n < Len(repl) THEN SubSeq(repl, n + 1, n + 1) ELSE ""
    IN  IF n = 0 THEN repl
        ELSE IF next \in {"$", "&", "'"}
        THEN SubSeq(repl, 1, n - 1)
                \o (CASE next = "$" -> "$" [] next = "&" -> match [] OTHER -> after)
                \o Expand(SubSeq(repl, n + 2, Len(repl)), match, after)
        ELSE SubSeq(repl, 1, n) \o Expand(SubSeq(repl, n + 1, Len(repl)), match, after)

\* s.replace(pat, repl) for a string pat: the first occurrence only.  The
\* templates hold '%s' once, so replace(/%s/g, repl) on them is the same.
Replace(s, pat, repl) ==
    LET n == IndexOf(s, pat)
        before == SubSeq(s, 1, n - 1)
        after == SubSeq(s, n + Len(pat), Len(s))
    IN  IF n = 0 THEN s ELSE before \o Expand(repl, pat, after) \o after

\* a[0] < b[0] ... : the comparison of two strings by character codes
RECURSIVE StringLess(_, _)
StringLess(a, b) ==
    IF Len(b) = 0 THEN FALSE
    ELSE IF Len(a) = 0 THEN TRUE
    ELSE IF Head(a) = Head(b) THEN StringLess(Tail(a), Tail(b))
    ELSE Code(Head(a)) < Code(Head(b))

RECURSIVE JSString(_)
\* String(v).  The text of a Date depends on the host's time zone; the model
\* writes the fields it holds.
JSString(v) ==
    CASE v.k = "string" -> v.v
      [] v.k = "number" -> ToString(v.v)
      [] v.k = "boolean" -> IF v.v THEN "true" ELSE "false"
      [] v.k = "null" -> "null"
      [] v.k = "undefined" -> "undefined"
      [] v.k = "array" ->
            Join([n \in DOMAIN v.v |->
                    IF IsNullish(v.v[n]) THEN "" ELSE JSString(v.v[n])], ",")
      [] v.k = "date" ->
            "Date " \o Join([n \in DOMAIN v.v |-> ToString(v.v[n])], " ")
      [] OTHER -> "[object Object]"

\* the lower-case form of one character
lowerChar(c) ==
    IF Code(c) >= 65 /\ Code(c) <= 90
    THEN SubSeq(AsciiHigh, Code(c) - 64, Code(c) - 64)
    ELSE c

RECURSIVE toLowerCase(_)
\* String.prototype.toLowerCase
toLowerCase(s) == IF Len(s) = 0 THEN "" ELSE lowerChar(Head(s)) \o toLowerCase(Tail(s))

-----------------------------------------------------------------------------
(* The escapers *)

\* the characters escape() leaves as they are
EscapeKeeps == "@*_+-./0123456789ABCDEFGHIJKLMNOPQRSTUVWXYZabcdefghijklmnopqrstuvwxyz"

\* escape(c) with the double quote left as it is too
escapeChar_KeepsDoubleQuote(c) ==
    IF IndexOf(EscapeKeeps, c) > 0 \/ c \in {"<", ">", "$", "'", "\""} THEN c
    ELSE "%" \o Hex(c)

\* escape(c), then %3C, %3E, %24 and %27 put back
escapeChar(c) ==
    IF IndexOf(EscapeKeeps, c) > 0 \/ c \in {"<", ">", "$", "'"} THEN c
    ELSE "%" \o Hex(c)

RECURSIVE escape(_)
escape(s) == IF Len(s) = 0 THEN "" ELSE escapeChar(Head(s)) \o escape(Tail(s))

_escapeValue(v) ==
    LET result == JSString(v)
        q == IF IndexOf(result, "'") > 0 THEN "\"" ELSE "'"
    IN  q \o escape(result) \o q

\* s is a numeral of hexadecimal digits, of either case
isHex(s) ==
    \A n \in 1..Len(s) : IndexOf("0123456789ABCDEFabcdef", SubSeq(s, n, n)) > 0

RECURSIVE HexValue(_)
HexValue(s) ==
    IF Len(s) = 0 THEN 0
    ELSE 16 * HexValue(SubSeq(s, 1, Len(s) - 1))
         + (LET c == SubSeq(s, Len(s), Len(s))
            IN  IF IndexOf(HexDigits, c) > 0 THEN IndexOf(HexDigits, c) - 1
                ELSE IndexOf("0123456789abcdef", c) - 1)

RECURSIVE unescape(_)
\* unescape(s): %uXXXX and %XX become the character of that code
unescape(s) ==
    IF Len(s) = 0 THEN ""
    ELSE IF Len(s) >= 6 /\ SubSeq(s, 1, 2) = "%u" /\ isHex(SubSeq(s, 3, 6))
    THEN fromCharCode(HexValue(SubSeq(s, 3, 6))) \o unescape(SubSeq(s, 7, Len(s)))
    ELSE IF Len(s) >= 3 /\ SubSeq(s, 1, 1) = "%" /\ isHex(SubSeq(s, 2, 3))
    THEN fromCharCode(HexValue(SubSeq(s, 2, 3))) \o unescape(SubSeq(s, 4, Len(s)))
    ELSE SubSeq(s, 1, 1) \o unescape(SubSeq(s, 2, Len(s)))

RECURSIVE evalBody(_, _)
\* the characters between the delimiters q of a string literal: a bare q or
\* line terminator, or a backslash with nothing after it, is a SyntaxError;
\* of the escape sequences, \n, \t, \r and \c for a character c that stands
\* for itself are modelled
evalBody(body, q) ==
    IF Len(body) = 0 THEN [ok |-> TRUE, val |-> ""]
    ELSE IF SubSeq(body, 1, 1) \in {q, "\n", "\r"}
    THEN [ok |-> FALSE, err |-> "SyntaxError"]
    ELSE IF SubSeq(body, 1, 1) = "\\"
    THEN IF Len(body) < 2 \/ ~evalBody(SubSeq(body, 3, Len(body)), q).ok
         THEN [ok |-> FALSE, err |-> "SyntaxError"]
         ELSE [ok |-> TRUE,
               val |-> (CASE SubSeq(body, 2, 2) = "n" -> "\n"
                          [] SubSeq(body, 2, 2) = "t" -> "\t"
                          [] SubSeq(body, 2, 2) = "r" -> "\r"
                          [] OTHER -> SubSeq(body, 2, 2))
                       \o evalBody(SubSeq(body, 3, Len(body)), q).val]
    ELSE IF ~evalBody(SubSeq(body, 2, Len(body)), q).ok
    THEN [ok |-> FALSE, err |-> "SyntaxError"]
    ELSE [ok |-> TRUE,
          val |-> SubSeq(body, 1, 1) \o evalBody(SubSeq(body, 2, Len(body)), q).val]

\* eval(s) for a text s that should be one string literal
evalLiteral(s) ==
    IF \/ Len(s) < 2
       \/ SubSeq(s, 1, 1) \notin {"'", "\""}
       \/ SubSeq(s, Len(s), Len(s)) # SubSeq(s, 1, 1)
    THEN [ok |-> FALSE, err |-> "SyntaxError"]
    ELSE evalBody(SubSeq(s, 2, Len(s) - 1), SubSeq(s, 1, 1))

_escapeCustomProperties(properties) ==
    "{" \o Join([n \in DOMAIN Keys(properties) |->
                    _escapeValue(Str(Keys(properties)[n])) \o ":"
                        \o _escapeValue(Get(properties, Keys(properties)[n]))], ",")
        \o "}"

\* value.replace('"', '""'): a string pattern replaces the first match only
_escapeValueForCSV(value) == "\"" \o Replace(value, "\"", "\"\"") \o "\""

htmlChar(c) ==
    CASE c = "&" -> "&amp;"
      [] c = ">" -> "&gt;"
      [] c = "<" -> "&lt;"
      [] c = "\"" -> "&quot;"
      [] OTHER -> c

RECURSIVE _escapeHTML(_)
_escapeHTML(value) ==
    IF Len(value) = 0 THEN "" ELSE htmlChar(Head(value)) \o _escapeHTML(Tail(value))

-----------------------------------------------------------------------------
(* Results of operations that may throw *)

Throw(msg) == [ok |-> FALSE, err |-> msg]
Return(x) == [ok |-> TRUE, val |-> x]

-----------------------------------------------------------------------------
(* DataTable.columnTypeParser *)

validTypes == {"string", "number", "boolean", "date", "datetime", "timeofday"}

\* a descriptor whose label is its type when no label is given
descDict_LabelFromType(description) ==
    [id |-> IF Len(description) > 0 THEN description[1] ELSE Undefined,
     label |-> IF Len(description) > 2 THEN description[3]
               ELSE IF Len(description) > 1 THEN description[2]
               ELSE IF Len(description) > 0 THEN description[1] ELSE Undefined,
     type |-> IF Len(description) > 1 THEN toLowerCase(description[2].v) ELSE "string",
     custom_properties |-> IF Len(description) > 3 THEN description[4] ELSE EmptyObj]

\* the descriptor built from the elements of a description array
descDict(description) ==
    [id |-> IF Len(description) > 0 THEN description[1] ELSE Undefined,
     label |-> IF Len(description) > 2 THEN description[3]
               ELSE IF Len(description) > 0 THEN description[1] ELSE Undefined,
     type |-> IF Len(description) > 1 THEN toLowerCase(description[2].v) ELSE "string",
     custom_properties |-> IF Len(description) > 3 THEN description[4] ELSE EmptyObj]

columnTypeParser(desc) ==
    IF ~Truthy(desc) THEN Throw("Description error: empty description given")
    ELSE IF type(desc) \notin {"array", "string"}
    THEN Throw("Description error: expected either string or array")
    ELSE LET description == IF type(desc) = "string" THEN <<desc>> ELSE desc.v
         IN  IF \E n \in 1..Min(2, Len(description)) : ~isString(description[n])
             THEN Throw("Description error: expected array of strings")
             ELSE IF Len(description) > 3 /\ ~isObject(description[4])
             THEN Throw("Description error: expected custom properties object")
             ELSE IF Len(description) > 4
             THEN Throw("Description error: array of length > 4")
             ELSE IF descDict(description).type \notin validTypes
             THEN Throw("Description error: unsupported type")
             ELSE Return(descDict(description))

-----------------------------------------------------------------------------
(* DataTable._isColumnDesc and DataTable.tableDescriptionParser *)

_isColumnDesc(value) ==
    IF isString(value) THEN TRUE
    ELSE IF isArray(value)
    THEN IF Len(value.v) = 1 THEN FALSE
         ELSE IF Len(value.v) = 0 \/ ~isString(value.v[2]) THEN FALSE
         ELSE value.v[2].v \in validTypes
    ELSE FALSE

\* parsedCol.depth = depth; parsedCol.container = container
Column(parsedCol, depth, container) ==
    [id |-> parsedCol.id, label |-> parsedCol.label, type |-> parsedCol.type,
     custom_properties |-> parsedCol.custom_properties,
     depth |-> depth, container |-> container]

\* a loop that parses one column per element and throws at the first failure
ParseEach(descs, depth, container) ==
    LET parsed == [n \in DOMAIN descs |-> columnTypeParser(descs[n])]
    IN  IF \E n \in DOMAIN descs : ~parsed[n].ok
        THEN parsed[CHOOSE n \in DOMAIN descs :
                        ~parsed[n].ok /\ \A m \in 1..(n - 1) : parsed[m].ok]
        ELSE Return([n \in DOMAIN descs |-> Column(parsed[n].val, depth, container)])

\* the column description the innermost-object loop hands to columnTypeParser
InnerDesc(tableDescription, key) ==
    IF isArray(Get(tableDescription, key))
    THEN Arr(<<Str(key)>> \o Get(tableDescription, key).v)
    ELSE Arr(<<Str(key), Get(tableDescription, key)>>)

\* the test that takes every sequence under a single key for a column
isInnermost_AnySequence(tableDescription) ==
    \/ Len(prop(tableDescription)) # 1
    \/ isArray(val(tableDescription)[1])

\* the test with the single-key clause left out
isInnermost_ManyKeys(tableDescription) == Len(prop(tableDescription)) # 1

isInnermost(tableDescription) ==
    \/ Len(prop(tableDescription)) # 1
    \/ /\ isArray(val(tableDescription)[1])
       /\ Len(val(tableDescription)[1].v) > 0
       /\ isString(val(tableDescription)[1].v[1])
       /\ Len(val(tableDescription)[1].v) < 4

RECURSIVE tableDescriptionParser(_, _)
tableDescriptionParser(tableDescription, depth) ==
    IF _isColumnDesc(tableDescription)
    THEN LET parsedCol == columnTypeParser(tableDescription)
         IN  IF parsedCol.ok
             THEN Return(<<Column(parsedCol.val, depth, "scalar")>>)
             ELSE parsedCol
    ELSE IF ~isArray(tableDescription) /\ ~isObject(tableDescription)
    THEN Throw("Expected an iterable object")
    ELSE IF type(tableDescription) # "object"
    THEN LET columns == ParseEach(val(tableDescription), depth, "iter")
         IN  IF columns.ok /\ Len(columns.val) = 0
             THEN Throw("Description iterable objects should not be empty.")
             ELSE columns
    ELSE IF Len(prop(tableDescription)) = 0
    THEN Throw("Empty objects are not allowed inside description")
    ELSE IF isInnermost(tableDescription)
    THEN ParseEach([n \in DOMAIN prop(tableDescription) |->
                        InnerDesc(tableDescription, prop(tableDescription)[n])],
                   depth, "dict")
    ELSE LET parsedCol == columnTypeParser(Str(prop(tableDescription)[1]))
             result == tableDescriptionParser(val(tableDescription)[1], depth + 1)
         IN  IF ~parsedCol.ok THEN parsedCol
             ELSE IF ~result.ok THEN result
             ELSE Return(<<Column(parsedCol.val, depth, "dict")>> \o result.val)

\* the value under a key after the innermost-object loop has run:
\* tableDescription[i].unshift(i) puts the key in front of the caller's array,
\* for every key up to the first one whose column fails to parse
unshift(tableDescription, n) ==
    IF /\ isArray(val(tableDescription)[n])
       /\ \A m \in 1..(n - 1) :
              columnTypeParser(InnerDesc(tableDescription, prop(tableDescription)[m])).ok
    THEN InnerDesc(tableDescription, prop(tableDescription)[n])
    ELSE val(tableDescription)[n]

\* the caller's description after tableDescriptionParser(tableDescription) ran
RECURSIVE tableDescriptionAfter(_)
tableDescriptionAfter(tableDescription) ==
    IF _isColumnDesc(tableDescription) THEN tableDescription
    ELSE IF type(tableDescription) # "object" THEN tableDescription
    ELSE IF Len(prop(tableDescription)) = 0 THEN tableDescription
    ELSE IF isInnermost(tableDescription)
    THEN Obj([n \in DOMAIN prop(tableDescription) |->
                 <<prop(tableDescription)[n], unshift(tableDescription, n)>>])
    ELSE IF ~columnTypeParser(Str(prop(tableDescription)[1])).ok THEN tableDescription
    ELSE Obj(<< <<prop(tableDescription)[1],
                  tableDescriptionAfter(val(tableDescription)[1])>> >>)

-----------------------------------------------------------------------------
(* DataTable._o.clone *)

RECURSIVE clone(_)
\* obj[i] && typeof obj[i] == "object" ? this.clone(obj[i]) : obj[i]
cloneMember(x) == IF Truthy(x) /\ isObject(x) THEN clone(x) ELSE x

\* a Date has no enumerable property, so its clone is an empty object
clone(obj) ==
    IF ~isObject(obj) THEN EmptyObj
    ELSE IF obj.k = "array" THEN Arr([n \in DOMAIN obj.v |-> cloneMember(obj.v[n])])
    ELSE IF obj.k = "object"
    THEN Obj([n \in DOMAIN obj.v |-> <<obj.v[n][1], cloneMember(obj.v[n][2])>>])
    ELSE EmptyObj

-----------------------------------------------------------------------------
(* Rows.  A stored row is the pair [cells, customProperties]; cells is the  *)
(* row object, a function from property keys to values.                     *)

NoCells == [x \in {} |-> Null]

SetCell(cells, key, value) ==
    [x \in (DOMAIN cells) \cup {key} |-> IF x = key THEN value ELSE cells[x]]

\* row[key]
Cell(cells, key) == IF key \in DOMAIN cells THEN cells[key] ELSE Undefined

\* clone of a row object
cloneCells(cells) == [x \in DOMAIN cells |-> cloneMember(cells[x])]

-----------------------------------------------------------------------------
(* _innerAppendData.  The result holds the rows pushed onto this._data, in  *)
(* order, and whether the call returned or threw.                           *)

Pushed(rows) == [ok |-> TRUE, rows |-> rows, err |-> ""]
Thrown(rows, msg) == [ok |-> FALSE, rows |-> rows, err |-> msg]

\* if( colIndex >= this._columns ): a number compared with the array itself;
\* the array converts to NaN, so the test is false for every colIndex
tooDeep(colIndex, columns) == FALSE

\* the 'iter' loop: data[i] is assigned to consecutive columns
RECURSIVE iterAssign(_, _, _, _, _)
iterAssign(cells, columns, colIndex, elems, n) ==
    IF n > Len(elems) THEN cells
    ELSE iterAssign(SetCell(cells, ToKey(columns[colIndex + 1].id), elems[n]),
                    columns, colIndex + 1, elems, n + 1)

\* the values of a column descriptor's properties, in for-in order
columnProps(column) ==
    <<column.id, column.label, Str(column.type), column.custom_properties,
      Num(column.depth), Str(column.container)>>

\* the last-level loop: for( key in this._columns[colIndex] ) with
\* curId = this._columns[colIndex][key].id
RECURSIVE lastLevelCopy(_, _, _, _)
lastLevelCopy(cells, props, data, n) ==
    IF n > Len(props) THEN cells
    ELSE LET curId == Get(props[n], "id")
         IN  IF ~IsNullish(Get(data, ToKey(curId)))
             THEN lastLevelCopy(SetCell(cells, ToKey(curId), Get(data, ToKey(curId))),
                                props, data, n + 1)
             ELSE lastLevelCopy(cells, props, data, n + 1)

\* reading .id of null or undefined, or a property of null, is a TypeError
lastLevelThrows(props, data) ==
    \/ \E n \in DOMAIN props : IsNullish(props[n])
    \/ IsNullish(data)

RECURSIVE _innerAppendData(_, _, _, _)
RECURSIVE bindKeys(_, _, _, _, _)

\* for( key in data ): one recursive call per key, from key number n on
bindKeys(columns, prevColValues, data, colIndex, n) ==
    IF n > Len(prop(data)) THEN Pushed(<<>>)
    ELSE LET key == prop(data)[n]
             colValues == SetCell(cloneCells(prevColValues[1]),
                                  ToKey(columns[colIndex + 1].id), Str(key))
             first == _innerAppendData(columns, <<colValues, prevColValues[2]>>,
                                       Get(data, key), colIndex + 1)
         IN  IF ~first.ok THEN first
             ELSE LET rest == bindKeys(columns, prevColValues, data, colIndex, n + 1)
                  IN  [ok |-> rest.ok, rows |-> first.rows \o rest.rows, err |-> rest.err]

_innerAppendData(columns, prevColValues, data, colIndex) ==
    IF tooDeep(colIndex, columns)
    THEN Thrown(<<>>, "The data does not match description, too deep")
    ELSE IF colIndex >= Len(columns)
    THEN Thrown(<<>>, "TypeError")
    ELSE IF columns[colIndex + 1].container = "scalar"
    THEN Pushed(<< <<SetCell(prevColValues[1], ToKey(columns[colIndex + 1].id), data),
                     prevColValues[2]>> >>)
    ELSE IF columns[colIndex + 1].container = "iter"
    THEN IF ~isArray(data) THEN Thrown(<<>>, "Expected iterable object")
         ELSE IF colIndex + Len(data.v) > Len(columns)
         THEN Thrown(<<>>, "Too many elements given in data")
         ELSE Pushed(<< <<iterAssign(prevColValues[1], columns, colIndex, data.v, 1),
                          prevColValues[2]>> >>)
    ELSE IF ~isObject(data) \/ isArray(data)
    THEN Thrown(<<>>, "Expected dictionary at current level")
    ELSE IF columns[colIndex + 1].depth = columns[Len(columns)].depth
    THEN IF lastLevelThrows(columnProps(columns[colIndex + 1]), data)
         THEN Thrown(<<>>, "TypeError")
         ELSE Pushed(<< <<lastLevelCopy(prevColValues[1],
                                        columnProps(columns[colIndex + 1]), data, 1),
                          prevColValues[2]>> >>)
    ELSE IF Len(prop(data)) = 0
    THEN Pushed(<<prevColValues>>)
    ELSE bindKeys(columns, prevColValues, data, colIndex, 1)

-----------------------------------------------------------------------------
(* appendData *)

\* the elements the top-level loop binds: data[i] of an array, else the key i
topElements(data) ==
    IF isArray(data) THEN data.v
    ELSE IF data.k = "string" THEN [n \in 1..Len(data.v) |-> Str(ToString(n - 1))]
    ELSE [n \in DOMAIN Keys(data) |-> Str(Keys(data)[n])]

RECURSIVE appendEach(_, _, _, _)
\* an appendData that goes on with the next element after a failure
appendEach_SkipFailed(columns, elements, customProps, n) ==
    IF n > Len(elements) THEN Pushed(<<>>)
    ELSE LET first == _innerAppendData(columns, <<NoCells, customProps>>, elements[n], 0)
             rest == appendEach(columns, elements, customProps, n + 1)
         IN  [ok |-> first.ok /\ rest.ok, rows |-> first.rows \o rest.rows,
              err |-> IF first.ok THEN rest.err ELSE first.err]

\* for( i in data ): one row per element, from element number n on
appendEach(columns, elements, customProps, n) ==
    IF n > Len(elements) THEN Pushed(<<>>)
    ELSE LET first == _innerAppendData(columns, <<NoCells, customProps>>, elements[n], 0)
         IN  IF ~first.ok THEN first
             ELSE LET rest == appendEach(columns, elements, customProps, n + 1)
                  IN  [ok |-> rest.ok, rows |-> first.rows \o rest.rows, err |-> rest.err]

appendData(columns, data, customProps) ==
    IF columns[Len(columns)].depth = 0
    THEN appendEach(columns, topElements(data), customProps, 1)
    ELSE _innerAppendData(columns, <<NoCells, customProps>>, data, 0)

-----------------------------------------------------------------------------
(* The column indexes the binder reads: this._columns[colIndex], counted     *)
(* from 0 as in the code.                                                    *)

\* the 'iter' loop without its test of colIndex against the column count
iterReads_Unchecked(columns, colIndex, elems) ==
    {colIndex + n - 1 : n \in DOMAIN elems}

\* the 'iter' loop: this._columns[colIndex]['id'] is read for an element only
\* after colIndex >= this._columns.length did not throw
iterReads(columns, colIndex, elems) ==
    {colIndex + n - 1 : n \in {m \in DOMAIN elems : colIndex + m - 1 < Len(columns)}}

RECURSIVE columnReads(_, _, _)
RECURSIVE keyReads(_, _, _, _)

\* for( key in data ): the reads of the recursive calls, up to the first
\* call that throws
keyReads(columns, data, colIndex, n) ==
    IF n > Len(prop(data)) THEN {}
    ELSE columnReads(columns, Get(data, prop(data)[n]), colIndex + 1)
            \cup (IF _innerAppendData(columns, <<NoCells, Null>>,
                                      Get(data, prop(data)[n]), colIndex + 1).ok
                  THEN keyReads(columns, data, colIndex, n + 1)
                  ELSE {})

\* the indexes _innerAppendData(prevColValues, data, colIndex) reads
columnReads(columns, data, colIndex) ==
    IF colIndex >= Len(columns) THEN {colIndex}
    ELSE IF columns[colIndex + 1].container = "scalar" THEN {colIndex}
    ELSE IF columns[colIndex + 1].container = "iter"
    THEN {colIndex} \cup (IF isArray(data) THEN iterReads(columns, colIndex, data.v) ELSE {})
    ELSE IF ~isObject(data) \/ isArray(data) THEN {colIndex}
    ELSE IF columns[colIndex + 1].depth = columns[Len(columns)].depth
    THEN {colIndex, Len(columns) - 1}
    ELSE {colIndex, Len(columns) - 1} \cup keyReads(columns, data, colIndex, 1)

RECURSIVE elementReads(_, _, _)
\* for( i in data ) of appendData: the reads for the elements, up to the
\* first one that throws
elementReads(columns, elements, n) ==
    IF n > Len(elements) THEN {}
    ELSE columnReads(columns, elements[n], 0)
            \cup (IF _innerAppendData(columns, <<NoCells, Null>>, elements[n], 0).ok
                  THEN elementReads(columns, elements, n + 1)
                  ELSE {})

\* the indexes appendData(data) reads
appendReads(columns, data) ==
    {Len(columns) - 1}
        \cup (IF columns[Len(columns)].depth = 0
              THEN elementReads(columns, topElements(data), 1)
              ELSE columnReads(columns, data, 0))

-----------------------------------------------------------------------------
(* setRowsCustomProperties *)

\* the values rows[i] the loop visits
rowIndices(rows) == IF ~isArray(rows) /\ ~isObject(rows) THEN <<rows>> ELSE val(rows)

\* a setRowsCustomProperties that sets the properties of every row
setRowsCustomProperties_All(data, indices, customProps, n) ==
    IF \E m \in DOMAIN indices :
           ~(indices[m].k = "number" /\ indices[m].v >= 0 /\ indices[m].v < Len(data))
    THEN [ok |-> FALSE, data |-> data]
    ELSE [ok |-> TRUE,
          data |-> IF Len(indices) = 0 THEN data
                   ELSE [m \in DOMAIN data |-> <<data[m][1], customProps>>]]

\* this._data[rows[i]] = [this._data[rows[i]][0], customProperties], from the
\* n-th index on; reading [0] of a row that does not exist is a TypeError
RECURSIVE setRowsCustomProperties(_, _, _, _)
setRowsCustomProperties(data, indices, customProps, n) ==
    IF n > Len(indices) THEN [ok |-> TRUE, data |-> data]
    ELSE IF indices[n].k = "number" /\ indices[n].v >= 0 /\ indices[n].v < Len(data)
    THEN setRowsCustomProperties(
             [data EXCEPT ![indices[n].v + 1] = <<data[indices[n].v + 1][1], customProps>>],
             indices, customProps, n + 1)
    ELSE [ok |-> FALSE, data |-> data]

-----------------------------------------------------------------------------
(* preparedData.  The result holds what the call returns or throws and      *)
(* this._data as the call leaves it.                                        *)

Done(x, data) == [ok |-> TRUE, val |-> x, data |-> data]
Fail(msg, data) == [ok |-> FALSE, val |-> msg, data |-> data]

\* v.length
lengthOf(v) == IF v.k \in {"string", "array"} THEN Len(v.v) ELSE 0

isDigits(s) == Len(s) > 0 /\ \A n \in 1..Len(s) : IndexOf("0123456789", SubSeq(s, n, n)) > 0

RECURSIVE digitsValue(_)
digitsValue(s) ==
    IF Len(s) = 0 THEN 0
    ELSE 10 * digitsValue(SubSeq(s, 1, Len(s) - 1))
            + IndexOf("0123456789", SubSeq(s, Len(s), Len(s))) - 1

\* the primitive a comparison makes of an array or an object
toPrimitive(v) == IF v.k \in {"array", "object", "date"} THEN Str(JSString(v)) ELSE v

\* whether Number(v) is a number (not NaN), for a primitive v
hasNumber(v) ==
    \/ v.k \in {"number", "boolean", "null"}
    \/ v.k = "string" /\ (Len(v.v) = 0 \/ isDigits(v.v))

toNumber(v) ==
    CASE v.k = "number" -> v.v
      [] v.k = "boolean" -> IF v.v THEN 1 ELSE 0
      [] v.k = "string" -> digitsValue(v.v)
      [] OTHER -> 0

\* a == b, for two values that are not the same object
looseEquals(a, b) ==
    IF IsNullish(a) \/ IsNullish(b) THEN IsNullish(a) /\ IsNullish(b)
    ELSE IF isObject(a) /\ isObject(b) THEN FALSE
    ELSE IF toPrimitive(a).k = "string" /\ toPrimitive(b).k = "string"
    THEN toPrimitive(a).v = toPrimitive(b).v
    ELSE /\ hasNumber(toPrimitive(a))
         /\ hasNumber(toPrimitive(b))
         /\ toNumber(toPrimitive(a)) = toNumber(toPrimitive(b))

\* a < b
lessThan(a, b) ==
    IF toPrimitive(a).k = "string" /\ toPrimitive(b).k = "string"
    THEN StringLess(toPrimitive(a).v, toPrimitive(b).v)
    ELSE /\ hasNumber(toPrimitive(a))
         /\ hasNumber(toPrimitive(b))
         /\ toNumber(toPrimitive(a)) < toNumber(toPrimitive(b))

RECURSIVE compareRows(_, _, _, _)
\* the sort function: the first sort key, from number n on, that tells the rows apart
compareRows(row1, row2, properSortKeys, n) ==
    IF n > Len(properSortKeys) THEN 0
    ELSE LET a == Cell(row1[1], properSortKeys[n][1])
             b == Cell(row2[1], properSortKeys[n][1])
             cmpResult == properSortKeys[n][2]
                             * (IF looseEquals(a, b) THEN 0 ELSE IF lessThan(a, b) THEN -1 ELSE 1)
         IN  IF cmpResult # 0 THEN cmpResult
             ELSE compareRows(row1, row2, properSortKeys, n + 1)

RECURSIVE insertRow(_, _, _)
insertRow(sorted, row, properSortKeys) ==
    IF Len(sorted) = 0 THEN <<row>>
    ELSE IF compareRows(sorted[Len(sorted)], row, properSortKeys, 1) > 0
    THEN insertRow(SubSeq(sorted, 1, Len(sorted) - 1), row, properSortKeys)
            \o <<sorted[Len(sorted)]>>
    ELSE sorted \o <<row>>

RECURSIVE sort(_, _)
\* Array.prototype.sort on a short array: a stable insertion sort
sort(rows, properSortKeys) ==
    IF Len(rows) = 0 THEN <<>>
    ELSE insertRow(sort(SubSeq(rows, 1, Len(rows) - 1), properSortKeys),
                   rows[Len(rows)], properSortKeys)

\* DataTable._o.clone(this._data)
cloneRows(data) == [n \in DOMAIN data |-> <<cloneCells(data[n][1]), cloneMember(data[n][2])>>]

\* the sort keys of orderBy: a string is one key; isArray is asked about the
\* boolean (orderBy && orderBy.length == 2), so a pair is never made one key
orderKeys(orderBy) ==
    IF isString(orderBy) \/ isArray(Bool(lengthOf(orderBy) = 2)) THEN <<orderBy>>
    ELSE orderBy.v

isSortKey(key) ==
    \/ isString(key)
    \/ /\ isArray(key)
       /\ Len(key.v) = 2
       /\ isString(key.v[2])
       /\ toLowerCase(key.v[2].v) \in {"asc", "desc"}

properSortKey(key) ==
    IF isString(key) THEN <<ToKey(key), 1>>
    ELSE <<ToKey(key.v[1]), IF toLowerCase(key.v[2].v) = "asc" THEN 1 ELSE -1>>

\* a preparedData that sorts this._data itself
preparedData_SortInPlace(data, orderBy) ==
    IF lengthOf(orderBy) = 0 THEN Done(data, data)
    ELSE IF \E n \in DOMAIN orderKeys(orderBy) : ~isSortKey(orderKeys(orderBy)[n])
    THEN Fail("Expected array with second value: 'asc' or 'desc'", data)
    ELSE LET sorted == sort(data, [n \in DOMAIN orderKeys(orderBy) |->
                                      properSortKey(orderKeys(orderBy)[n])])
         IN  Done(sorted, sorted)

preparedData(data, orderBy) ==
    IF lengthOf(orderBy) = 0 THEN Done(data, data)
    ELSE IF \E n \in DOMAIN orderKeys(orderBy) : ~isSortKey(orderKeys(orderBy)[n])
    THEN Fail("Expected array with second value: 'asc' or 'desc'", data)
    ELSE Done(sort(cloneRows(data),
                   [n \in DOMAIN orderKeys(orderBy) |->
                       properSortKey(orderKeys(orderBy)[n])]),
              data)

-----------------------------------------------------------------------------
(* DataTable.singleValueToJS.  escapeFn is "js" for _escapeValue and "csv"  *)
(* for _escapeValueForCSV.                                                  *)

\* escapeFn(value): value.replace is no function unless value is a string
escapeWith(escapeFn, value) ==
    IF escapeFn = "js" THEN Return(Str(_escapeValue(value)))
    ELSE IF isString(value) THEN Return(Str(_escapeValueForCSV(value.v)))
    ELSE Throw("TypeError: value.replace is not a function")

\* all six fields, whatever the type
dateDetails_AllFields(value, valueType) == value.v

dateDetails(value, valueType) ==
    CASE valueType = "date" -> SubSeq(value.v, 1, 3)
      [] valueType = "timeofday" -> SubSeq(value.v, 4, 6)
      [] OTHER -> value.v

RECURSIVE singleValueToJS(_, _, _)
singleValueToJS(value, valueType, escapeFn) ==
    IF isArray(value)
    THEN IF \/ Len(value.v) \notin {2, 3}
            \/ Len(value.v) = 3 /\ ~isObject(value.v[3])
         THEN Throw("Wrong format for value and formatting")
         ELSE IF ~isString(value.v[2]) /\ ~IsNullish(value.v[2])
         THEN Throw("Formatted value is not string")
         ELSE LET js_value == singleValueToJS(value.v[1], valueType, "js")
              IN  IF ~js_value.ok THEN js_value
                  ELSE IF IsNullish(value.v[2])
                  THEN Return(Arr(<<js_value.val, Null>>))
                  ELSE LET escaped == escapeWith(escapeFn, value.v[2])
                       IN  IF ~escaped.ok THEN escaped
                           ELSE Return(Arr(<<js_value.val, escaped.val>>))
    ELSE IF IsNullish(value) THEN Return(Str("null"))
    ELSE IF valueType = "boolean"
    THEN Return(Str(IF Truthy(value) THEN "true" ELSE "false"))
    ELSE IF valueType = "number"
    THEN IF type(value) = "number" THEN Return(Str(JSString(value)))
         ELSE Throw("Wrong type when expected number")
    ELSE IF valueType = "string" THEN escapeWith(escapeFn, value)
    ELSE IF valueType \in {"date", "timeofday", "datetime"}
    THEN IF type(value) # "date"
         THEN Throw(IF valueType = "datetime" THEN "Wrong type when expected datetime"
                    ELSE "Wrong type when expected Date")
         ELSE LET details == Join([n \in DOMAIN dateDetails(value, valueType) |->
                                      ToString(dateDetails(value, valueType)[n])], ",")
              IN  Return(Str(IF valueType = "timeofday"
                             THEN "[" \o details \o "]"
                             ELSE "new Date(" \o details \o ")"))
    ELSE Throw("Unsupported type")

-----------------------------------------------------------------------------
(* The renderers.  Each result holds the string returned (or the error      *)
(* thrown) and this._data as the call leaves it.                            *)

\* columnOrder: the ids of all columns when none is given
orderOf(columns, columnOrder) ==
    IF IsNullish(columnOrder) THEN [n \in DOMAIN columns |-> columns[n].id]
    ELSE columnOrder.v

inColDict(columns, col) == \E n \in DOMAIN columns : ToKey(columns[n].id) = ToKey(col)

\* colDict[col]: of the columns of that id, the last one
colDict(columns, col) ==
    columns[CHOOSE n \in DOMAIN columns :
                /\ ToKey(columns[n].id) = ToKey(col)
                /\ \A m \in DOMAIN columns :
                       (ToKey(columns[m].id) = ToKey(col)) => (m <= n)]

\* the first failure among results, or their values
Collect(results) ==
    IF \E n \in DOMAIN results : ~results[n].ok
    THEN results[CHOOSE n \in DOMAIN results :
                     ~results[n].ok /\ \A m \in 1..(n - 1) : results[m].ok]
    ELSE Return([n \in DOMAIN results |-> results[n].val])

\* Array.prototype.join on values: null and undefined give the empty string
JoinValues(values, sep) ==
    Join([n \in DOMAIN values |->
             IF IsNullish(values[n]) THEN "" ELSE JSString(values[n])], sep)

hasProperties(v) == Len(prop(v)) > 0

\* one cell of toJSON, from the cell's value and its singleValueToJS
jsonCellOf(value, js, isLast) ==
    IF ~Truthy(value) /\ ~isLast THEN Return("")
    ELSE IF ~js.ok THEN js
    ELSE IF ~isArray(js.val)
    THEN Return("{v:" \o JSString(js.val) \o "}")
    ELSE IF Len(value.v) # 3
    THEN Return("{v:" \o JSString(js.val.v[1])
                   \o ",f:" \o JSString(js.val.v[2]) \o "}")
    ELSE IF IsNullish(js.val.v[2])
    THEN Return("{v:" \o JSString(js.val.v[1])
                   \o ",p:" \o _escapeCustomProperties(value.v[3]) \o "}")
    ELSE Return("{v:" \o JSString(js.val)
                   \o ",f:" \o _escapeCustomProperties(value.v[3]) \o ",p:}")

jsonCell(columns, row, order, n) ==
    jsonCellOf(Cell(row, ToKey(order[n])),
               singleValueToJS(Cell(row, ToKey(order[n])),
                               colDict(columns, order[n]).type, "js"),
               ToKey(order[n]) = ToKey(order[Len(order)]))

\* one row of toJSON, from its cells
jsonRowOf(cellJSON, cp) ==
    IF ~cellJSON.ok THEN cellJSON
    ELSE Return("{c:[" \o Join(cellJSON.val, ",") \o "]"
                   \o (IF hasProperties(cp)
                       THEN ",p:" \o _escapeCustomProperties(cp) ELSE "")
                   \o "}")

jsonRow(columns, row, order) ==
    jsonRowOf(Collect([n \in DOMAIN order |-> jsonCell(columns, row[1], order, n)]), row[2])

jsonColumn(column) ==
    "{id:" \o _escapeValue(cloneMember(column.id))
        \o ",label:" \o _escapeValue(cloneMember(column.label))
        \o ",type:'" \o column.type \o "'"
        \o (IF hasProperties(column.custom_properties)
            THEN ",p:" \o _escapeCustomProperties(column.custom_properties) ELSE "")
        \o "}"

\* the text of toJSON, from its rows
jsonTable(columns, tableProperties, order, rowJSON, data) ==
    IF ~rowJSON.ok THEN Fail(rowJSON.err, data)
    ELSE Done("{cols:["
                 \o Join([n \in DOMAIN order |-> jsonColumn(colDict(columns, order[n]))], ",")
                 \o "],rows:[" \o Join(rowJSON.val, ",") \o "]"
                 \o (IF hasProperties(tableProperties)
                     THEN ",p:" \o _escapeCustomProperties(tableProperties) ELSE "")
                 \o "}",
              data)

\* toJSON, from the column order and the prepared data
toJSONOf(columns, data, tableProperties, order, prepData) ==
    IF \E n \in DOMAIN order : ~inColDict(columns, order[n])
    THEN Fail("TypeError: colDict[columnOrder[i]] is undefined", data)
    ELSE IF ~prepData.ok THEN prepData
    ELSE jsonTable(columns, tableProperties, order,
                   Collect([n \in DOMAIN prepData.val |->
                               jsonRow(columns, prepData.val[n], order)]),
                   prepData.data)

toJSON(columns, data, tableProperties, columnOrder, orderBy) ==
    toJSONOf(columns, data, tableProperties,
             orderOf(columns, columnOrder), preparedData(data, orderBy))

\* the addColumn statement of column number n of the order, with its
\* setColumnProperties statement
jsColumn(name, column, n) ==
    name \o ".addColumn('" \o column.type \o "', " \o _escapeValue(column.label)
        \o ", " \o _escapeValue(column.id) \o ");\n"
        \o (IF hasProperties(column.custom_properties)
            THEN name \o ".setColumnProperties(" \o ToString(n - 1) \o ", "
                    \o _escapeCustomProperties(column.custom_properties) \o ");\n"
            ELSE "")

\* the setCell statement of cell (i, j) of toJSCode, from the cell's value
\* and its singleValueToJS
jsCellOf(name, value, js, i, j) ==
    IF IsNullish(value) THEN Return("")
    ELSE IF ~js.ok THEN js
    ELSE IF isArray(js.val)
    THEN Return(name \o ".setCell(" \o ToString(i - 1) \o ", " \o ToString(j - 1) \o ", "
                   \o JSString(js.val.v[1]) \o ", " \o JSString(js.val.v[2])
                   \o (IF isArray(value) /\ Len(value.v) = 3
                       THEN ", " \o _escapeCustomProperties(value.v[3]) ELSE "")
                   \o ");\n")
    ELSE Return(name \o ".setCell(" \o ToString(i - 1) \o ", " \o ToString(j - 1) \o ", "
                   \o JSString(js.val) \o ");\n")

jsCell(name, columns, row, order, i, j) ==
    jsCellOf(name, Cell(row, ToKey(order[j])),
             singleValueToJS(Cell(row, ToKey(order[j])),
                             colDict(columns, order[j]).type, "js"),
             i, j)

\* the statements of row i with setRowProperties ahead of the cells
jsRowOf_PropertiesFirst(name, cells, cp, i) ==
    IF ~cells.ok THEN cells
    ELSE Return((IF hasProperties(cp)
                 THEN name \o ".setRowProperties(" \o ToString(i - 1) \o ", "
                         \o _escapeCustomProperties(cp) \o ");\n"
                 ELSE "")
                   \o Join(cells.val, ""))

\* the statements of row i of toJSCode, from its cells
jsRowOf(name, cells, cp, i) ==
    IF ~cells.ok THEN cells
    ELSE Return(Join(cells.val, "")
                   \o (IF hasProperties(cp)
                       THEN name \o ".setRowProperties(" \o ToString(i - 1) \o ", "
                               \o _escapeCustomProperties(cp) \o ");\n"
                       ELSE ""))

jsRow(name, columns, row, order, i) ==
    jsRowOf(name,
            Collect([j \in DOMAIN order |-> jsCell(name, columns, row[1], order, i, j)]),
            row[2], i)

\* the text of toJSCode, from the statements of its rows
jsTable(columns, tableProperties, name, order, rows, length, data) ==
    IF ~rows.ok THEN Fail(rows.err, data)
    ELSE Done("var " \o name \o " = new google.visualization.DataTable();\n"
                 \o (IF hasProperties(tableProperties)
                     THEN name \o ".setTableProperties("
                             \o _escapeCustomProperties(tableProperties) \o ");\n"
                     ELSE "")
                 \o Join([n \in DOMAIN order |->
                             jsColumn(name, colDict(columns, order[n]), n)], "")
                 \o name \o ".addRows(" \o ToString(length) \o ");\n"
                 \o Join(rows.val, ""),
              data)

\* toJSCode, from the column order and the prepared data
toJSCodeOf(columns, data, tableProperties, name, order, prepData) ==
    IF \E n \in DOMAIN order : ~inColDict(columns, order[n])
    THEN Fail("TypeError: colDict[col] is undefined", data)
    ELSE IF ~prepData.ok THEN prepData
    ELSE jsTable(columns, tableProperties, name, order,
                 Collect([i \in DOMAIN prepData.val |->
                             jsRow(name, columns, prepData.val[i], order, i)]),
                 Len(data), prepData.data)

toJSCode(columns, data, tableProperties, name, columnOrder, orderBy) ==
    toJSCodeOf(columns, data, tableProperties, name,
               orderOf(columns, columnOrder), preparedData(data, orderBy))

dateTypes == {"date", "datetime", "timeofday"}

\* one field of a row of toCSV, from the cell's value and its singleValueToJS
csvCellOf(value, valueType, js) ==
    IF IsNullish(value) THEN Return(Str("\"\""))
    ELSE IF ~js.ok THEN js
    ELSE IF isArray(js.val)
    THEN Return(IF valueType \in dateTypes THEN js.val.v[2] ELSE js.val.v[1])
    ELSE IF js.val.v # "\"\"" /\ valueType \in dateTypes
    THEN Return(Str("\"" \o js.val.v \o "\""))
    ELSE Return(js.val)

csvCell(columns, row, order, j) ==
    csvCellOf(Cell(row, ToKey(order[j])), colDict(columns, order[j]).type,
              singleValueToJS(Cell(row, ToKey(order[j])),
                              colDict(columns, order[j]).type, "csv"))

\* one row of toCSV, from its fields
csvRowOf(cellList, separator) ==
    IF ~cellList.ok THEN cellList
    ELSE Return(JoinValues(cellList.val, separator))

csvRow(columns, row, order, separator) ==
    csvRowOf(Collect([j \in DOMAIN order |-> csvCell(columns, row[1], order, j)]), separator)

\* the text of toCSV, from its rows
csvTable(columns, order, rowList, separator, data) ==
    IF ~rowList.ok THEN Fail(rowList.err, data)
    ELSE Done(Join([n \in DOMAIN order |->
                       _escapeValueForCSV(colDict(columns, order[n]).label.v)], separator)
                 \o "\n" \o Join(rowList.val, "\n"),
              data)

\* toCSV, from the column order and the prepared data
toCSVOf(columns, data, order, prepData, separator) ==
    IF \E n \in DOMAIN order : ~inColDict(columns, order[n])
    THEN Fail("TypeError: colDict[columnOrder[i]] is undefined", data)
    ELSE IF \E n \in DOMAIN order : ~isString(colDict(columns, order[n]).label)
    THEN Fail("TypeError: value.replace is not a function", data)
    ELSE IF ~prepData.ok THEN prepData
    ELSE csvTable(columns, order,
                  Collect([i \in DOMAIN prepData.val |->
                              csvRow(columns, prepData.val[i], order, separator)]),
                  separator, prepData.data)

toCSV(columns, data, columnOrder, orderBy, separator) ==
    toCSVOf(columns, data, orderOf(columns, columnOrder), preparedData(data, orderBy),
            separator)

toTSVExcel(columns, data, columnOrder, orderBy) ==
    toCSV(columns, data, columnOrder, orderBy, "\t")

\* the text of one cell of toHTML: the formatted value of a pair
htmlValue(value, js) ==
    IF IsNullish(value) THEN Str("")
    ELSE IF isArray(js.val) THEN js.val.v[2] ELSE js.val

\* one cell of a row of toHTML, from the cell's value and its singleValueToJS
htmlCellOf(value, js, text) ==
    IF ~IsNullish(value) /\ ~js.ok THEN js
    ELSE IF ~isString(text) THEN Throw("TypeError: value is null")
    ELSE Return(Replace("<td>%s</td>", "%s", _escapeHTML(text.v)))

htmlCell(columns, row, order, j) ==
    htmlCellOf(Cell(row, ToKey(order[j])),
               singleValueToJS(Cell(row, ToKey(order[j])),
                               colDict(columns, order[j]).type, "js"),
               htmlValue(Cell(row, ToKey(order[j])),
                         singleValueToJS(Cell(row, ToKey(order[j])),
                                         colDict(columns, order[j]).type, "js")))

\* one row of toHTML, from its cells
htmlRowOf(cellList) ==
    IF ~cellList.ok THEN cellList
    ELSE Return(Replace("<tr>%s</tr>", "%s", Join(cellList.val, "")))

htmlRow(columns, row, order) ==
    htmlRowOf(Collect([j \in DOMAIN order |-> htmlCell(columns, row[1], order, j)]))

\* the text of toHTML, from its rows
htmlTable(columns, order, rowList, data) ==
    IF ~rowList.ok THEN Fail(rowList.err, data)
    ELSE Done(Replace("<html><body><table border='1'>%s</table></body></html>", "%s",
                  Replace("<thead><tr>%s</tr></thead>", "%s",
                      Join([n \in DOMAIN order |->
                               Replace("<th>%s</th>", "%s",
                                       _escapeHTML(colDict(columns, order[n]).label.v))], ""))
                    \o Replace("<tbody>%s</tbody>", "%s", Join(rowList.val, ""))),
              data)

\* toHTML, from the column order and the prepared data
toHTMLOf(columns, data, order, prepData) ==
    IF \E n \in DOMAIN order : ~inColDict(columns, order[n])
    THEN Fail("TypeError: colDict[col] is undefined", data)
    ELSE IF \E n \in DOMAIN order : ~isString(colDict(columns, order[n]).label)
    THEN Fail("TypeError: value.replace is not a function", data)
    ELSE IF ~prepData.ok THEN prepData
    ELSE htmlTable(columns, order,
                   Collect([i \in DOMAIN prepData.val |->
                               htmlRow(columns, prepData.val[i], order)]),
                   prepData.data)

toHTML(columns, data, columnOrder, orderBy) ==
    toHTMLOf(columns, data, orderOf(columns, columnOrder), preparedData(data, orderBy))

\* the response text around the table toJSON gave
jsonResponse(table, reqId, responseHandler) ==
    IF ~table.ok THEN table
    ELSE Done(Replace(Replace(Replace(
                  "%s({'version':'0.6', 'reqId':'%s', 'status':'OK', 'table': %s});",
                  "%s", JSString(responseHandler)), "%s", JSString(reqId)), "%s", table.val),
              table.data)

toJSONResponse(columns, data, tableProperties, columnOrder, orderBy, reqId, responseHandler) ==
    jsonResponse(toJSON(columns, data, tableProperties, columnOrder,
                        IF IsNullish(orderBy) THEN Arr(<<>>) ELSE orderBy),
                 reqId, responseHandler)

\* tqxDict[key] after the options of tqx are read: the last option of that
\* key, or the default
tqxDict(options, key, default) ==
    LET at == {n \in DOMAIN options : Split(options[n], ":")[1] = key}
    IN  IF at = {} THEN default
        ELSE Str(Split(options[CHOOSE n \in at : \A m \in at : m <= n], ":")[2])

\* a toResponse that answers every json request with the defaults
toResponse_DefaultsOnly(columns, data, tableProperties, columnOrder, orderBy, tqx) ==
    LET options == IF Truthy(tqx) THEN Split(tqx.v, ";") ELSE <<>>
        order == IF IsNullish(orderBy) THEN Arr(<<>>) ELSE orderBy
        out == tqxDict(options, "out", Str("json")).v
    IN  IF \E n \in DOMAIN options : Len(Split(options[n], ":")) # 2
        THEN Fail("Invalid tqx provided.", data)
        ELSE IF tqxDict(options, "version", Str("0.6")).v # "0.6"
        THEN Fail(Replace("Version (%s) passed by request is not supported.", "%s",
                          tqxDict(options, "version", Str("0.6")).v), data)
        ELSE IF out = "json"
        THEN toJSONResponse(columns, data, tableProperties, columnOrder, order,
                 Num(0), Str("google.visualization.Query.setResponse"))
        ELSE IF out = "html" THEN toHTML(columns, data, columnOrder, order)
        ELSE IF out = "csv" THEN toCSV(columns, data, columnOrder, order, ", ")
        ELSE IF out = "tsv-excel" THEN toTSVExcel(columns, data, columnOrder, order)
        ELSE Fail(Replace("'out' parameter: '%s' is not supported", "%s", out), data)

toResponse(columns, data, tableProperties, columnOrder, orderBy, tqx) ==
    LET options == IF Truthy(tqx) THEN Split(tqx.v, ";") ELSE <<>>
        order == IF IsNullish(orderBy) THEN Arr(<<>>) ELSE orderBy
        out == tqxDict(options, "out", Str("json")).v
    IN  IF \E n \in DOMAIN options : Len(Split(options[n], ":")) # 2
        THEN Fail("Invalid tqx provided.", data)
        ELSE IF tqxDict(options, "version", Str("0.6")).v # "0.6"
        THEN Fail(Replace("Version (%s) passed by request is not supported.", "%s",
                          tqxDict(options, "version", Str("0.6")).v), data)
        ELSE IF out = "json"
        THEN toJSONResponse(columns, data, tableProperties, columnOrder, order,
                 tqxDict(options, "reqId", Num(0)),
                 tqxDict(options, "responseHandler",
                         Str("google.visualization.Query.setResponse")))
        ELSE IF out = "html" THEN toHTML(columns, data, columnOrder, order)
        ELSE IF out = "csv" THEN toCSV(columns, data, columnOrder, order, ", ")
        ELSE IF out = "tsv-excel" THEN toTSVExcel(columns, data, columnOrder, order)
        ELSE Fail(Replace("'out' parameter: '%s' is not supported", "%s", out), data)

-----------------------------------------------------------------------------
(* Inputs *)

MaxRows == 2     \* the table holds at most this many rows

S(x) == Str(x)

\* schema descriptions
FlatSeq == Arr(<<Arr(<<S("a"), S("number")>>), Arr(<<S("b"), S("string")>>)>>)
FlatMap == Obj(<< <<"a", S("number")>>, <<"b", S("string")>> >>)
FlatScalar == S("a")
NestedMap == Obj(<< <<"k", FlatMap>> >>)
NestedSeq == Obj(<< <<"k", FlatSeq>> >>)
NestedScalar == Obj(<< <<"k", Arr(<<S("a"), S("number"), S("a"), EmptyObj>>)>> >>)
ThreeLevels == Obj(<< <<"k", Obj(<< <<"a", Arr(<<S("b"), S("number"), S("b"), EmptyObj>>)>> >>)>> >>)
DupSeq == Arr(<<S("a"), S("a")>>)
DupNested == Obj(<< <<"a", Arr(<<S("a"), S("number"), S("a"), EmptyObj>>)>> >>)

Descriptions ==
    {FlatSeq, FlatMap, FlatScalar, NestedMap, NestedSeq, NestedScalar, ThreeLevels,
     DupSeq, DupNested}

aDate == DateV(<<2010, 0, 2, 3, 4, 5>>)

\* payload fragments: what one row payload, or one value under a key, may be
BatchFragments ==
    {Arr(<<Num(1), S("z")>>), Arr(<<Num(2)>>), Arr(<<Num(1), S("z"), Bool(TRUE)>>),
     Obj(<< <<"a", Num(1)>>, <<"x", Num(9)>> >>), EmptyObj}

Fragments == BatchFragments \cup {Num(1), Null, aDate}

\* what follows another fragment in a payload
SecondFragments == {Arr(<<Num(1), S("z")>>), Obj(<< <<"a", Num(1)>>, <<"x", Num(9)>> >>)}

\* the sequences of one or two fragments
Batches ==
    {<<f>> : f \in Fragments}
    \cup {<<f, g>> : f \in BatchFragments, g \in SecondFragments}

\* append payloads: a fragment, an array of fragments, or a mapping of fragments
Payloads ==
    Fragments
    \cup {Arr(<<>>)}
    \cup {Arr(b) : b \in Batches}
    \cup {Obj([n \in DOMAIN b |-> <<(<<"x", "y">>)[n], b[n]>>]) : b \in Batches}

rowProps == Obj(<< <<"row_cp", S("row_v")>> >>)
RowProperties == {Null, rowProps}

tableProps == Obj(<< <<"global_cp", S("global_v")>> >>)

RowSelections ==
    {Num(n) : n \in 0..MaxRows} \cup {Arr(<<Num(0), Num(1)>>), Arr(<<Num(1), Num(MaxRows)>>)}

-----------------------------------------------------------------------------
(* The table: construction and the calls made on it.  lastOp records the   *)
(* call the caller has just made, until the caller goes on (Continue).     *)

Call(op, arg, ok, out) == [op |-> op, arg |-> arg, ok |-> ok, out |-> out]

Idle == Call("none", <<>>, TRUE, "")

\* new DataTable(tableDescription, null, tableProps)
Init ==
    \E description \in Descriptions :
        /\ tableDescriptionParser(description, 0).ok
        /\ constructedFrom = description
        /\ _columns = tableDescriptionParser(description, 0).val
        /\ _data = <<>>
        /\ customProperties = tableProps
        /\ lastOp = Call("new", <<description, tableProps>>, TRUE, "")
        /\ prevData = <<>>

AppendData(data, customProps) ==
    LET r == appendData(_columns, data, customProps)
    IN  /\ lastOp = Idle
        /\ Len(_data) < MaxRows
        /\ Len(_data) + Len(r.rows) <= MaxRows
        /\ _data' = _data \o r.rows
        /\ prevData' = _data
        /\ lastOp' = Call("appendData", <<data, customProps>>, r.ok, r.err)
        /\ UNCHANGED <<_columns, customProperties, constructedFrom>>

\* a loadData that keeps the rows the table holds
LoadData_NoClear(data, customProps) ==
    LET r == appendData(_columns, data, customProps)
    IN  /\ lastOp = Idle
        /\ Len(_data) < MaxRows
        /\ Len(_data) + Len(r.rows) <= MaxRows
        /\ _data' = _data \o r.rows
        /\ prevData' = _data
        /\ lastOp' = Call("loadData", <<data, customProps>>, r.ok, r.err)
        /\ UNCHANGED <<_columns, customProperties, constructedFrom>>

\* this._data = []; this.appendData(data, customProperties)
LoadData(data, customProps) ==
    LET r == appendData(_columns, data, customProps)
    IN  /\ lastOp = Idle
        /\ Len(_data) < MaxRows
        /\ Len(r.rows) <= MaxRows
        /\ _data' = <<>> \o r.rows
        /\ prevData' = _data
        /\ lastOp' = Call("loadData", <<data, customProps>>, r.ok, r.err)
        /\ UNCHANGED <<_columns, customProperties, constructedFrom>>

SetRowsCustomProperties(rows, customProps) ==
    LET r == setRowsCustomProperties(_data, rowIndices(rows), customProps, 1)
    IN  /\ lastOp = Idle
        /\ _data' = r.data
        /\ prevData' = _data
        /\ lastOp' = Call("setRowsCustomProperties", <<rows, customProps>>, r.ok, "")
        /\ UNCHANGED <<_columns, customProperties, constructedFrom>>

\* the caller goes on to its next call
Continue ==
    /\ lastOp # Idle
    /\ lastOp' = Idle
    /\ prevData' = <<>>
    /\ UNCHANGED <<_columns, _data, customProperties, constructedFrom>>

Next ==
    \/ \E data \in Payloads, customProps \in RowProperties : AppendData(data, customProps)
    \/ \E data \in Payloads, customProps \in RowProperties : LoadData(data, customProps)
    \/ \E rows \in RowSelections, customProps \in RowProperties :
           SetRowsCustomProperties(rows, customProps)
    \/ Continue

Spec == Init /\ [][Next]_vars
-----------------------------------------------------------------------------
(* The parser called on its own *)

Ids == {"", "a", "b", "id", "0"}

TypeNames == validTypes \cup {"String", "NUMBER", "bogus"}

Labels == {S("A"), S(""), Num(1)}

ColumnProperties == {EmptyObj, Obj(<< <<"key", S("value")>> >>), S("p")}

ColumnDescriptions ==
    {S(id) : id \in Ids}
    \cup {Arr(<<S(id)>>) : id \in Ids}
    \cup {Arr(<<S(id), S(t)>>) : id \in Ids, t \in TypeNames}
    \cup {Arr(<<S(id), S(t), l>>) : id \in Ids, t \in TypeNames, l \in Labels}
    \cup {Arr(<<S(id), S(t), l, p>>) :
             id \in Ids, t \in {"string", "NUMBER"}, l \in Labels, p \in ColumnProperties}
    \cup {Null, Num(5), EmptyObj, Arr(<<>>), Arr(<<Num(1)>>), Arr(<<S("a"), Num(1)>>),
          Arr(<<S("a"), S("string"), S("A"), EmptyObj, S("x")>>)}

InitParser ==
    /\ _columns = <<>>
    /\ _data = <<>>
    /\ customProperties = EmptyObj
    /\ constructedFrom = Null
    /\ lastOp = Idle
    /\ prevData = <<>>

\* DataTable.columnTypeParser(description)
ParseColumn(description) ==
    /\ lastOp = Idle
    /\ lastOp' = Call("columnTypeParser", <<description>>,
                      columnTypeParser(description).ok, <<columnTypeParser(description)>>)
    /\ UNCHANGED <<_columns, _data, customProperties, constructedFrom, prevData>>

\* columnTypeParser(id), columnTypeParser([id]) and columnTypeParser([id, 'string'])
ParseColumnForms(id) ==
    /\ lastOp = Idle
    /\ lastOp' = Call("columnTypeParser forms", <<S(id)>>, TRUE,
                      <<columnTypeParser(S(id)),
                        columnTypeParser(Arr(<<S(id)>>)),
                        columnTypeParser(Arr(<<S(id), S("string")>>))>>)
    /\ UNCHANGED <<_columns, _data, customProperties, constructedFrom, prevData>>

\* what a single key of a description may hold
KeyedDescriptions ==
    {Arr(<<S("number")>>), Arr(<<S("number"), S("column a")>>),
     Arr(<<S("NUMBER"), S("A"), EmptyObj>>), Arr(<<S("b"), S("number")>>),
     Arr(<<S("b"), S("c")>>), Arr(<<S("string"), Num(1)>>),
     Arr(<<S("number"), S("A"), S("p")>>),
     S("number"), S("x"), S(""), FlatMap, FlatSeq,
     Arr(<<S("b"), S("number"), S("b"), EmptyObj>>),
     Arr(<<S("b"), S("c"), S("d"), S("e")>>),
     Arr(<<Arr(<<S("b"), S("number")>>), S("c")>>),
     Obj(<< <<"b", Arr(<<S("number"), S("column b")>>)>> >>),
     Obj(<< <<"b", S("c")>> >>),
     Arr(<<>>), EmptyObj, Obj(<< <<"b", EmptyObj>> >>), Num(5), Null, Bool(TRUE), aDate}

\* descriptions handed to tableDescriptionParser
TableDescriptions ==
    Descriptions
    \cup {Obj(<< <<k, v>> >>) : k \in {"a", ""}, v \in KeyedDescriptions}
    \cup {Obj(<< <<"a", v>>, <<"c", S("string")>> >>) : v \in KeyedDescriptions}
    \cup KeyedDescriptions
    \cup {Arr(<<Arr(<<S("a"), S("number")>>), v>>) :
             v \in {Num(6), Arr(<<>>), EmptyObj, Null, S("b"), aDate}}
    \cup {Arr(<<Arr(<<>>)>>), Arr(<<EmptyObj>>), Arr(<<S("a")>>)}

Depths == {0, 1}

\* DataTable.tableDescriptionParser(tableDescription, depth)
ParseTable(tableDescription, depth) ==
    /\ lastOp = Idle
    /\ lastOp' = Call("tableDescriptionParser", <<tableDescription, depth>>,
                      tableDescriptionParser(tableDescription, depth).ok,
                      <<tableDescriptionParser(tableDescription, depth)>>)
    /\ UNCHANGED <<_columns, _data, customProperties, constructedFrom, prevData>>

\* test('tableDescriptionParser'): the description parsed twice in the test
MixedMap ==
    Obj(<< <<"a", Arr(<<S("number"), S("column a")>>)>>,
           <<"b", Arr(<<S("string"), S("column b")>>)>> >>)

\* d = tableDescription; tableDescriptionParser(d); tableDescriptionParser(d):
\* the two results, and d after the first call
ParseTableTwice(tableDescription) ==
    /\ lastOp = Idle
    /\ lastOp' = Call("tableDescriptionParser twice", <<tableDescription>>,
                      tableDescriptionParser(tableDescription, 0).ok,
                      <<tableDescriptionParser(tableDescription, 0),
                        tableDescriptionParser(tableDescriptionAfter(tableDescription), 0),
                        tableDescriptionAfter(tableDescription)>>)
    /\ UNCHANGED <<_columns, _data, customProperties, constructedFrom, prevData>>

NextParser ==
    \/ \E description \in ColumnDescriptions : ParseColumn(description)
    \/ \E id \in Ids : ParseColumnForms(id)
    \/ \E tableDescription \in TableDescriptions, depth \in Depths :
           ParseTable(tableDescription, depth)
    \/ \E tableDescription \in TableDescriptions \cup {MixedMap} :
           ParseTableTwice(tableDescription)
    \/ Continue

SpecParser == InitParser /\ [][NextParser]_vars

-----------------------------------------------------------------------------
(* The encoder called on its own *)

MaxText == 2     \* the strings encoded hold at most this many characters

TextAlphabet == {"a", "3", "C", "'", "\"", "\\", "%", "<", "\n", "é", "€"}

RECURSIVE TextsOf(_)
TextsOf(n) ==
    IF n = 0 THEN {""}
    ELSE TextsOf(n - 1) \cup {c \o s : c \in TextAlphabet, s \in TextsOf(n - 1)}

Texts == TextsOf(MaxText)

Dates == {aDate, DateV(<<2010, 0, 2, 0, 0, 0>>), DateV(<<2001, 1, 3, 4, 5, 6>>),
          DateV(<<2001, 1, 3, 3, 4, 5>>)}

\* cell values that are not arrays
BareValues ==
    {Null, Undefined, Bool(TRUE), Bool(FALSE), Num(0), Num(1), Num(-5), EmptyObj}
    \cup Dates \cup {S(""), S("a"), S("10"), S("it's")}

\* cell values that are arrays
TupleValues ==
    {Arr(<<v, f>>) :
        v \in {Null, Bool(FALSE), Num(5), S("a"), aDate, Arr(<<Num(1), S("x")>>)},
        f \in {S("5$"), S(""), Null, Undefined, Num(5), EmptyObj}}
    \cup {Arr(<<v, f, p>>) :
             v \in {Num(5), S("a")},
             f \in {S("5$"), Null, Num(5)},
             p \in {EmptyObj, Obj(<< <<"p", S("v")>> >>), Null, Arr(<<>>), aDate, S("6$"), Num(6), Undefined}}
    \cup {Arr(<<>>), Arr(<<Num(5)>>), Arr(<<Num(5), S("5$"), EmptyObj, S("x")>>)}

ValueTypes == validTypes \cup {"no_such_type", "Number"}

EscapeFns == {"js", "csv"}

\* DataTable.singleValueToJS(value, type, escapeFn)
Encode(value, valueType, escapeFn) ==
    /\ lastOp = Idle
    /\ lastOp' = Call("singleValueToJS", <<value, valueType, escapeFn>>,
                      singleValueToJS(value, valueType, escapeFn).ok,
                      <<singleValueToJS(value, valueType, escapeFn)>>)
    /\ UNCHANGED <<_columns, _data, customProperties, constructedFrom, prevData>>

NextEncoder ==
    \/ \E value \in BareValues \cup TupleValues, valueType \in ValueTypes,
          escapeFn \in EscapeFns :
           Encode(value, valueType, escapeFn)
    \/ \E s \in Texts, escapeFn \in EscapeFns :
           \/ Encode(S(s), "string", escapeFn)
           \/ Encode(Arr(<<S("str"), S(s)>>), "string", escapeFn)
    \/ Continue

SpecEncoder == InitParser /\ [][NextEncoder]_vars

-----------------------------------------------------------------------------
(* The table rendered *)

RenderTable ==
    Arr(<<Arr(<<S("a"), S("number"), S("A")>>), S("b"), Arr(<<S("c"), S("boolean")>>)>>)

RenderDescriptions == {RenderTable, NestedScalar}

cellProps == Obj(<< <<"cell_cp", S("cell_v")>> >>)

\* the appends made before rendering: a payload with its row properties
RenderAppends ==
    {<<Arr(<<Arr(<<Num(2), S("x y")>>)>>), Null>>,
     <<Arr(<<Arr(<<Num(1), S("it's"), Bool(TRUE)>>)>>), rowProps>>,
     <<Arr(<<Arr(<<Arr(<<Num(3), S("three")>>), Null, Arr(<<Bool(FALSE), Null, cellProps>>)>>)>>),
       Null>>,
     <<Obj(<< <<"y", Num(2)>> >>), rowProps>>,
     <<Obj(<< <<"x", Num(1)>> >>), Null>>}

ColumnOrders == {Null, Arr(<<S("a")>>), Arr(<<S("b"), S("a")>>)}

OrderBys ==
    {Null, S("a"), Arr(<<S("a"), S("DESC")>>), Arr(<<Arr(<<S("a"), S("DESC")>>)>>),
     Arr(<<Arr(<<S("a"), S("up")>>)>>)}

TqxOptions ==
    {S(""), S("out:csv"), S("out:html;reqId:5"), S("out:tsv-excel"), S("version:0.5"),
     S("out:json;"), S("out:xml"), S("reqId:7;responseHandler:cb")}

InitRender ==
    \E description \in RenderDescriptions :
        /\ tableDescriptionParser(description, 0).ok
        /\ constructedFrom = description
        /\ _columns = tableDescriptionParser(description, 0).val
        /\ _data = <<>>
        /\ customProperties = tableProps
        /\ lastOp = Call("new", <<description, tableProps>>, TRUE, "")
        /\ prevData = <<>>

\* a render called on the table: r is what it returns and what it leaves
Render(op, arg, r) ==
    /\ lastOp = Idle
    /\ _data' = r.data
    /\ prevData' = _data
    /\ lastOp' = Call(op, arg, r.ok, r.val)
    /\ UNCHANGED <<_columns, customProperties, constructedFrom>>

ToJSON(columnOrder, orderBy) ==
    Render("toJSON", <<columnOrder, orderBy>>,
           toJSON(_columns, _data, customProperties, columnOrder, orderBy))

ToJSCode(name, columnOrder, orderBy) ==
    Render("toJSCode", <<name, columnOrder, orderBy>>,
           toJSCode(_columns, _data, customProperties, name, columnOrder, orderBy))

ToCSV(columnOrder, orderBy, separator) ==
    Render("toCSV", <<columnOrder, orderBy, separator>>,
           toCSV(_columns, _data, columnOrder, orderBy, separator))

ToTSVExcel(columnOrder, orderBy) ==
    Render("toTSVExcel", <<columnOrder, orderBy>>,
           toTSVExcel(_columns, _data, columnOrder, orderBy))

ToHTML(columnOrder, orderBy) ==
    Render("toHTML", <<columnOrder, orderBy>>,
           toHTML(_columns, _data, columnOrder, orderBy))

ToJSONResponse(columnOrder, orderBy, reqId, responseHandler) ==
    Render("toJSONResponse", <<columnOrder, orderBy, reqId, responseHandler>>,
           toJSONResponse(_columns, _data, customProperties, columnOrder, orderBy,
                          reqId, responseHandler))

ToResponse(columnOrder, orderBy, tqx) ==
    Render("toResponse", <<columnOrder, orderBy, tqx>>,
           toResponse(_columns, _data, customProperties, columnOrder, orderBy, tqx))

\* orderBy given as one pair [columnId, direction]
PairOrders ==
    {Arr(<<S("a"), S(direction)>>) : direction \in {"desc", "DESC", "asc", "Asc", "up"}}

\* table.preparedData(orderBy)
PreparedData(orderBy) ==
    Render("preparedData", <<orderBy>>, preparedData(_data, orderBy))

NextRender ==
    \/ \E append \in RenderAppends : AppendData(append[1], append[2])
    \/ \E orderBy \in OrderBys \cup PairOrders : PreparedData(orderBy)
    \/ \E columnOrder \in ColumnOrders, orderBy \in OrderBys :
           \/ ToJSON(columnOrder, orderBy)
           \/ ToJSCode("t", columnOrder, orderBy)
           \/ ToCSV(columnOrder, orderBy, ", ")
           \/ ToTSVExcel(columnOrder, orderBy)
           \/ ToHTML(columnOrder, orderBy)
           \/ ToJSONResponse(columnOrder, orderBy, Num(0), S("handler"))
           \/ \E tqx \in TqxOptions : ToResponse(columnOrder, orderBy, tqx)
    \/ Continue

SpecRender == InitRender /\ [][NextRender]_vars

-----------------------------------------------------------------------------
(* The table sorted *)

MaxSorted == 4     \* the sorted table holds at most this many rows

\* test('orderBy'): the description and its rows, and a row without col2
SortedTable == Arr(<<S("col1"), Arr(<<S("col2"), S("number"), S("Second Column")>>)>>)

SortedRows ==
    {Arr(<<S("b"), Num(3)>>), Arr(<<S("a"), Num(3)>>), Arr(<<S("a"), Num(2)>>),
     Arr(<<S("b"), Num(1)>>), Arr(<<S("c")>>)}

RECURSIVE RowLists(_)
RowLists(n) ==
    IF n = 0 THEN {<<>>}
    ELSE RowLists(n - 1) \cup {<<r>> \o s : r \in SortedRows, s \in RowLists(n - 1)}

\* orderBy given as a list of keys, or not given
KeyLists ==
    {Null, Undefined, Arr(<<>>), S("col1"), S("col2"),
     Arr(<<S("col2"), S("col1")>>),
     Arr(<<Arr(<<S("col1"), S("desc")>>), S("col2")>>),
     Arr(<<Arr(<<S("col2"), S("desc")>>)>>),
     Arr(<<Arr(<<S("col1"), S("asc")>>), Arr(<<S("col2"), S("desc")>>)>>),
     Arr(<<Arr(<<S("col2"), S("desc")>>), Arr(<<S("col1"), S("asc")>>)>>)}

\* new DataTable(description, data)
InitSorted ==
    \E rows \in RowLists(MaxSorted) :
        /\ constructedFrom = SortedTable
        /\ _columns = tableDescriptionParser(SortedTable, 0).val
        /\ _data = appendData(tableDescriptionParser(SortedTable, 0).val, Arr(rows), Null).rows
        /\ customProperties = EmptyObj
        /\ lastOp = Idle
        /\ prevData = <<>>

NextSorted ==
    \/ \E orderBy \in KeyLists : PreparedData(orderBy)
    \/ \E orderBy \in KeyLists : ToJSON(Null, orderBy)
    \/ Continue

SpecSorted == InitSorted /\ [][NextSorted]_vars

-----------------------------------------------------------------------------
(* The table of the custom-properties test, rendered cell by cell *)

\* test('custom properties'): the description, with a date column added
CellsTable ==
    Arr(<<Arr(<<S("a"), S("number"), S("A"), Obj(<< <<"col_cp", S("col_v")>> >>)>>),
          S("b"), Arr(<<S("c"), S("boolean")>>), Arr(<<S("d"), S("date")>>)>>)

nullProps == Obj(<< <<"null_cp", S("null_v")>> >>)

\* the rows appended, each with its row properties: the rows of the test,
\* a row of values that are false in a condition, a row of formatted cells
\* and a row with a date
CellRows ==
    {<<Arr(<<Num(1), Null, Arr(<<Null, Null, nullProps>>)>>), rowProps>>,
     <<Arr(<<Null, Arr(<<S("z"), Null, cellProps>>), Bool(TRUE)>>), Null>>,
     <<Arr(<<Num(3)>>), Null>>,
     <<Arr(<<Num(0), S(""), Bool(FALSE)>>), Null>>,
     <<Arr(<<Arr(<<Num(2), S("two")>>), Arr(<<S("w"), S("W"), cellProps>>),
             Arr(<<Bool(FALSE), S("no")>>)>>), rowProps>>,
     <<Arr(<<Num(1), S("x"), Bool(TRUE), aDate>>), Null>>}

CellOrders == {Null, Arr(<<S("c"), S("a")>>), Arr(<<S("d"), S("b")>>)}

CellKeys == {Null, S("a"), Arr(<<Arr(<<S("a"), S("desc")>>)>>)}

CellTableProperties == {Null, tableProps}

InitCells ==
    \E props \in CellTableProperties :
        /\ constructedFrom = CellsTable
        /\ _columns = tableDescriptionParser(CellsTable, 0).val
        /\ _data = <<>>
        /\ customProperties = (IF IsNullish(props) THEN EmptyObj ELSE props)
        /\ lastOp = Call("new", <<CellsTable, props>>, TRUE, "")
        /\ prevData = <<>>

NextCells ==
    \/ \E row \in CellRows : AppendData(Arr(<<row[1]>>), row[2])
    \/ \E orderBy \in CellKeys : PreparedData(orderBy)
    \/ \E columnOrder \in CellOrders, orderBy \in CellKeys :
           \/ ToJSON(columnOrder, orderBy)
           \/ ToJSCode("mytab", columnOrder, orderBy)
    \/ Continue

SpecCells == InitCells /\ [][NextCells]_vars

-----------------------------------------------------------------------------
(* Vocabulary of the properties                                            *)

ColumnId(n) == ToKey(_columns[n].id)

DistinctIds == \A i, j \in DOMAIN _columns : (i # j) => (ColumnId(i) # ColumnId(j))

LastDepth == _columns[Len(_columns)].depth

ContainersFrom(n, container) ==
    \A m \in n..Len(_columns) : _columns[m].container = container

Called(op) == lastOp.op = op

Payload == lastOp.arg[1]

GivenProps == lastOp.arg[2]

\* the rows the last call put behind the rows the table held
Added == SubSeq(_data, Len(prevData) + 1, Len(_data))

KeepsPrevious ==
    /\ Len(_data) >= Len(prevData)
    /\ SubSeq(_data, 1, Len(prevData)) = prevData

RECURSIVE Concat(_)
Concat(seqs) == IF Len(seqs) = 0 THEN <<>> ELSE Head(seqs) \o Concat(Tail(seqs))

\* the entries of a mapping fragment whose keys are ids of the columns from
\* number n on
MatchingEntries(fragment, n) ==
    [x \in {ColumnId(m) : m \in n..Len(_columns)} \cap Range(prop(fragment))
        |-> Get(fragment, x)]

AllValues(data, kind) == \A n \in DOMAIN val(data) : val(data)[n].k = kind

-----------------------------------------------------------------------------
\* C1: when the last level's columns are bound from a mapping, the row holds
\* exactly the fragment's entries whose keys are ids of those columns; keys
\* that match no column are left out without an error.
C1_MappingRowHoldsMatchingEntries ==
    /\ (/\ Called("appendData")
        /\ LastDepth = 0
        /\ ContainersFrom(1, "dict")
        /\ isArray(Payload)
        /\ AllValues(Payload, "object"))
       => /\ lastOp.ok
          /\ KeepsPrevious
          /\ Len(Added) = Len(Payload.v)
          /\ \A n \in DOMAIN Payload.v :
                 Added[n][1] = MatchingEntries(Payload.v[n], 1)
    /\ (/\ Called("appendData")
        /\ LastDepth = 1
        /\ ContainersFrom(2, "dict")
        /\ Payload.k = "object"
        /\ Len(Payload.v) > 0
        /\ AllValues(Payload, "object"))
       => /\ lastOp.ok
          /\ KeepsPrevious
          /\ Len(Added) = Len(Payload.v)
          /\ \A n \in DOMAIN Payload.v :
                 Added[n][1] = SetCell(MatchingEntries(val(Payload)[n], 2),
                                       ColumnId(1), Str(prop(Payload)[n]))

-----------------------------------------------------------------------------
\* C2: on a flat sequence schema with n columns, appendData of an
\* array of k row arrays, none longer than n, adds exactly k rows behind the
\* rows held, in the order given; in each row the j-th element is stored under
\* the j-th column id and the columns beyond the row's length have no cell.
C2_FlatSequenceAppend ==
    (/\ Called("appendData")
     /\ LastDepth = 0
     /\ ContainersFrom(1, "iter")
     /\ isArray(Payload)
     /\ \A n \in DOMAIN Payload.v :
            isArray(Payload.v[n]) /\ Len(Payload.v[n].v) <= Len(_columns))
    => /\ lastOp.ok
       /\ KeepsPrevious
       /\ Len(_data) = Len(prevData) + Len(Payload.v)
       /\ \A n \in DOMAIN Payload.v :
              /\ DOMAIN Added[n][1] = {ColumnId(j) : j \in 1..Len(Payload.v[n].v)}
              /\ \A j \in 1..Len(Payload.v[n].v) :
                     Added[n][1][ColumnId(j)] = Payload.v[n].v[j]

-----------------------------------------------------------------------------
\* the cells the columns from the second on get from the value of an outer key
InnerCells(value) ==
    IF _columns[2].container = "scalar"
    THEN [x \in {ColumnId(2)} |-> value]
    ELSE [x \in {ColumnId(j + 1) : j \in 1..Len(value.v)}
            |-> value.v[CHOOSE j \in 1..Len(value.v) : ColumnId(j + 1) = x]]

\* the rows one outer key of a three-level payload gives
ThreeLevelRows(key, inner) ==
    IF Len(prop(inner)) = 0
    THEN <<SetCell(NoCells, ColumnId(1), Str(key))>>
    ELSE [n \in DOMAIN prop(inner) |->
            SetCell(SetCell(SetCell(NoCells, ColumnId(1), Str(key)),
                            ColumnId(2), Str(prop(inner)[n])),
                    ColumnId(3), val(inner)[n])]

-----------------------------------------------------------------------------
\* the row payloads appendData binds one after the other
Singles(data) ==
    IF LastDepth = 0
    THEN [n \in DOMAIN topElements(data) |-> Arr(<<topElements(data)[n]>>)]
    ELSE IF data.k = "object" /\ Len(data.v) > 0
    THEN [n \in DOMAIN data.v |-> Obj(<<data.v[n]>>)]
    ELSE <<data>>

BoundAlone(n) == appendData(_columns, Singles(Payload)[n], GivenProps)

\* C4: when appendData fails at the k-th row payload of a batch, the table
\* holds the rows it held before the call followed by the rows of the k-1
\* payloads bound before the failure; a flat schema stores nothing of the
\* payload that failed.
C4_FailureKeepsBoundRows ==
    (Called("appendData") /\ ~lastOp.ok)
    => \E k \in DOMAIN Singles(Payload) :
           /\ ~BoundAlone(k).ok
           /\ \A n \in 1..(k - 1) : BoundAlone(n).ok
           /\ _data = prevData \o Concat([n \in 1..k |-> BoundAlone(n).rows])
           /\ (LastDepth = 0) => (Len(_data) = Len(prevData) + k - 1)

C4_Witness ==
    /\ Called("appendData")
    /\ ~lastOp.ok
    /\ isArray(Payload)
    /\ Len(Payload.v) = 2
    /\ Len(prevData) = 1
    /\ Len(_data) = 2
    /\ BoundAlone(1).ok
    /\ ~BoundAlone(2).ok

-----------------------------------------------------------------------------
\* a fragment of the wrong shape for column number n
WrongShape(fragment, n) ==
    CASE _columns[n].container = "iter" ->
             \/ ~isArray(fragment)
             \/ Len(fragment.v) > Len(_columns) - n + 1
      [] _columns[n].container = "dict" -> fragment.k # "object"
      [] OTHER -> FALSE

\* C5: a fragment whose shape does not match the schema at its level raises an
\* error and no row is stored for its payload: something that is not a
\* sequence at a sequence column, a sequence with more elements than columns
\* remain, anything that is not a mapping at a mapping column.
C5_WrongShapeRaises ==
    /\ (/\ Called("appendData")
        /\ LastDepth = 0
        /\ \E n \in DOMAIN topElements(Payload) :
               WrongShape(topElements(Payload)[n], 1))
       => LET k == CHOOSE n \in DOMAIN topElements(Payload) :
                       /\ WrongShape(topElements(Payload)[n], 1)
                       /\ \A m \in 1..(n - 1) :
                              ~WrongShape(topElements(Payload)[m], 1)
          IN  /\ ~lastOp.ok
              /\ KeepsPrevious
              /\ Len(Added) = k - 1
    /\ (/\ Called("appendData")
        /\ LastDepth > 0
        /\ WrongShape(Payload, 1))
       => /\ ~lastOp.ok
          /\ _data = prevData

-----------------------------------------------------------------------------
\* C6: after loadData(data) the rows are exactly the rows appendData(data)
\* gives on an empty table, whatever the table held; the columns are still
\* those parsed from the table description.
C6_LoadDataReplacesRows ==
    (Called("loadData") /\ lastOp.ok)
    => /\ _data = appendData(_columns, Payload, GivenProps).rows
       /\ _columns = tableDescriptionParser(constructedFrom, 0).val

C6_Witness ==
    /\ Called("loadData")
    /\ lastOp.ok
    /\ Len(prevData) = 1
    /\ Len(_data) = 1
    /\ _data # prevData

-----------------------------------------------------------------------------
ListedRows ==
    {rowIndices(lastOp.arg[1])[n].v : n \in DOMAIN rowIndices(lastOp.arg[1])}

\* C7: the row custom properties given to appendData or loadData are attached
\* to every row that call adds and the rows held before keep theirs;
\* setRowsCustomProperties replaces the properties of exactly the listed rows
\* and changes no cell.
C7_RowPropertiesFrame ==
    /\ Called("appendData")
       => /\ KeepsPrevious
          /\ \A n \in DOMAIN Added : Added[n][2] = GivenProps
    /\ Called("loadData")
       => \A n \in DOMAIN _data : _data[n][2] = GivenProps
    /\ (Called("setRowsCustomProperties") /\ lastOp.ok)
       => /\ Len(_data) = Len(prevData)
          /\ \A n \in DOMAIN _data :
                 /\ _data[n][1] = prevData[n][1]
                 /\ _data[n][2] = IF n - 1 \in ListedRows
                                  THEN GivenProps ELSE prevData[n][2]

C7_Witness ==
    /\ Called("setRowsCustomProperties")
    /\ lastOp.ok
    /\ Len(_data) = 2
    /\ ListedRows = {1}
    /\ _data[1][2] # _data[2][2]
    /\ _data[2][2] # prevData[2][2]

-----------------------------------------------------------------------------
\* C8: the column ids of every constructed table are pairwise distinct.
C8_ColumnIdsDistinct == DistinctIds


-----------------------------------------------------------------------------
RenderCalls ==
    {"toJSON", "toJSCode", "toCSV", "toTSVExcel", "toHTML", "toJSONResponse", "toResponse"}

\* what the render of a call gives on the rows data
Rendered(call, data) ==
    CASE call.op = "toJSON" ->
            toJSON(_columns, data, customProperties, call.arg[1], call.arg[2])
      [] call.op = "toJSCode" ->
            toJSCode(_columns, data, customProperties, call.arg[1], call.arg[2], call.arg[3])
      [] call.op = "toCSV" ->
            toCSV(_columns, data, call.arg[1], call.arg[2], call.arg[3])
      [] call.op = "toTSVExcel" ->
            toTSVExcel(_columns, data, call.arg[1], call.arg[2])
      [] call.op = "toHTML" ->
            toHTML(_columns, data, call.arg[1], call.arg[2])
      [] call.op = "toJSONResponse" ->
            toJSONResponse(_columns, data, customProperties, call.arg[1], call.arg[2],
                           call.arg[3], call.arg[4])
      [] OTHER ->
            toResponse(_columns, data, customProperties, call.arg[1], call.arg[2], call.arg[3])

\* C9: no render, with or without a columnOrder or an orderBy, changes the
\* stored rows, their order, the row or table custom properties or the column
\* list; the render repeated on the table it leaves returns the same string.
C9_RendersChangeNothing ==
    /\ _columns = tableDescriptionParser(constructedFrom, 0).val
    /\ customProperties = tableProps
    /\ (lastOp.op \in RenderCalls)
       => /\ _data = prevData
          /\ Rendered(lastOp, _data).ok = lastOp.ok
          /\ Rendered(lastOp, _data).val = lastOp.out

C9_Witness ==
    /\ lastOp.op = "toJSON"
    /\ lastOp.ok
    /\ lastOp.arg[2] = S("a")
    /\ Len(_data) = 2
    /\ lessThan(Cell(_data[2][1], "a"), Cell(_data[1][1], "a"))
    /\ _data[1][2] = rowProps

-----------------------------------------------------------------------------
\* the descriptor of a column given by its id alone
DefaultDescriptor(id) ==
    Return([id |-> S(id), label |-> S(id), type |-> "string", custom_properties |-> EmptyObj])

\* C10 as stated: for every id string, columnTypeParser(id),
\* columnTypeParser([id]) and columnTypeParser([id, 'string']) return equal
\* descriptors: id and label the given id, type 'string', no custom property.
C10_FormsAgreeForEveryId ==
    (lastOp.op = "columnTypeParser forms")
    => \A n \in 1..3 : lastOp.out[n] = DefaultDescriptor(lastOp.arg[1].v)

\* C10 amended: the three forms return that descriptor for every id string
\* that is not empty; for the empty string, columnTypeParser(id) throws and
\* the two array forms return the descriptor.
C10_FormsAgreeForNonEmptyId ==
    (lastOp.op = "columnTypeParser forms")
    => /\ (lastOp.arg[1].v # "")
          => \A n \in 1..3 : lastOp.out[n] = DefaultDescriptor(lastOp.arg[1].v)
       /\ (lastOp.arg[1].v = "")
          => /\ ~lastOp.out[1].ok
             /\ \A n \in 2..3 : lastOp.out[n] = DefaultDescriptor("")

C10_Witness ==
    /\ lastOp.op = "columnTypeParser forms"
    /\ lastOp.arg[1] = S("id")
    /\ lastOp.out[1].ok
    /\ lastOp.out[1] = lastOp.out[3]

-----------------------------------------------------------------------------
\* C11: columnTypeParser fails whenever the id, the type (if present) or the
\* label (if present) is not a string, or the type, compared without regard
\* to case, is not one of the six type names; when it succeeds, the
\* descriptor's type is the lower-cased type name.
C11_NonStringPartsRejected ==
    Called("columnTypeParser")
    => /\ (~isArray(Payload) /\ ~isString(Payload)) => ~lastOp.ok
       /\ isArray(Payload)
          => /\ (\E n \in 1..Min(3, Len(Payload.v)) : ~isString(Payload.v[n]))
                => ~lastOp.ok
             /\ (/\ Len(Payload.v) > 1
                 /\ isString(Payload.v[2])
                 /\ toLowerCase(Payload.v[2].v) \notin validTypes)
                => ~lastOp.ok
             /\ (lastOp.ok /\ Len(Payload.v) > 1)
                => lastOp.out[1].val.type = toLowerCase(Payload.v[2].v)

-----------------------------------------------------------------------------
\* a mapping with exactly one key
SingleKey(description) == description.k = "object" /\ Len(prop(description)) = 1

\* a sequence of one to three elements whose first element is a string
ShortStringFirst(v) == isArray(v) /\ Len(v.v) \in 1..3 /\ isString(v.v[1])

\* what the last call of tableDescriptionParser returned or threw
Parsed == lastOp.out[1]

Descriptor(id, label, columnType, depth, container) ==
    [id |-> S(id), label |-> S(label), type |-> columnType,
     custom_properties |-> EmptyObj, depth |-> depth, container |-> container]

\* C12: for a single-key mapping {k: v} whose v is a sequence of fewer than
\* four elements starting with a string, tableDescriptionParser reads the
\* mapping as one column, parsed from [k] followed by v's elements, mapping-
\* bound at the current depth (and fails when that column does not parse).
\* {a:['number','column a']} is one number column a; {a:['b','number']} fails
\* with the unsupported-type error; {a:['b','number','b',{}]} is column a
\* (depth d, mapping) followed by column b (depth d+1, scalar).
C12_ShortSequenceIsOneColumn ==
    (Called("tableDescriptionParser") /\ SingleKey(Payload))
    => /\ ShortStringFirst(val(Payload)[1])
          => /\ lastOp.ok = columnTypeParser(
                                Arr(<<S(prop(Payload)[1])>> \o val(Payload)[1].v)).ok
             /\ lastOp.ok
                => /\ Len(Parsed.val) = 1
                   /\ Parsed.val[1].depth = lastOp.arg[2]
                   /\ Parsed.val[1].container = "dict"
                   /\ [f \in {"id", "label", "type", "custom_properties"} |->
                          Parsed.val[1][f]]
                      = columnTypeParser(
                            Arr(<<S(prop(Payload)[1])>> \o val(Payload)[1].v)).val
       /\ (Payload = Obj(<< <<"a", Arr(<<S("number"), S("column a")>>)>> >>))
          => Parsed = Return(<<Descriptor("a", "column a", "number",
                                          lastOp.arg[2], "dict")>>)
       /\ (Payload = Obj(<< <<"a", Arr(<<S("b"), S("number")>>)>> >>))
          => Parsed = Throw("Description error: unsupported type")
       /\ (Payload = Obj(<< <<"a", Arr(<<S("b"), S("number"), S("b"), EmptyObj>>)>> >>))
          => Parsed = Return(<<Descriptor("a", "a", "string", lastOp.arg[2], "dict"),
                               Descriptor("b", "b", "number", lastOp.arg[2] + 1,
                                          "scalar")>>)

C12_Witness ==
    /\ Called("tableDescriptionParser")
    /\ Payload = Obj(<< <<"a", Arr(<<S("number"), S("column a")>>)>> >>)
    /\ lastOp.arg[2] = 1
    /\ lastOp.ok
    /\ Len(Parsed.val) = 1
    /\ Parsed.val[1].type = "number"

-----------------------------------------------------------------------------
-----------------------------------------------------------------------------
RECURSIVE HasEmptyOrForeignPart(_)
\* the description, or a part nested in it, is an empty sequence, an empty
\* mapping, or something that is neither string, sequence nor mapping; the
\* elements of a sequence that starts with a string are the parts of one
\* column definition and are not looked into
HasEmptyOrForeignPart(description) ==
    IF isString(description) THEN FALSE
    ELSE IF isArray(description)
    THEN \/ Len(description.v) = 0
         \/ /\ ~isString(description.v[1])
            /\ \E n \in DOMAIN description.v : HasEmptyOrForeignPart(description.v[n])
    ELSE IF description.k = "object"
    THEN \/ Len(prop(description)) = 0
         \/ \E n \in DOMAIN val(description) : HasEmptyOrForeignPart(val(description)[n])
    ELSE TRUE

\* C14: tableDescriptionParser fails for an empty sequence or an empty
\* mapping at any nesting level ([], {}, {a: []}, {a: {b: {}}}) and for a
\* description or nested element that is neither a string, a sequence nor a
\* mapping ({a: 5}, [['a','number'], 6]).
C14_EmptyOrForeignPartFails ==
    (Called("tableDescriptionParser") /\ HasEmptyOrForeignPart(Payload))
    => ~lastOp.ok

-----------------------------------------------------------------------------
\* what the last call of singleValueToJS returned or threw
Encoded == lastOp.out[1]

\* C15: singleValueToJS(null, t) returns 'null' for each of the six types,
\* and a cell [null, text] encodes to a pair whose first component is 'null'
\* and whose second component is the escaped text.
C15_NullEncodesAsNull ==
    (Called("singleValueToJS") /\ lastOp.arg[2] \in validTypes)
    => /\ (Payload = Null) => (Encoded = Return(S("null")))
       /\ (/\ isArray(Payload)
           /\ Len(Payload.v) = 2
           /\ Payload.v[1] = Null
           /\ isString(Payload.v[2]))
          => /\ lastOp.ok
             /\ isArray(Encoded.val)
             /\ Len(Encoded.val.v) = 2
             /\ Encoded.val.v[1] = S("null")
             /\ (lastOp.arg[3] = "js" /\ Payload.v[2] = S("5$"))
                => (Encoded.val.v[2] = S("'5$'"))
             /\ (lastOp.arg[3] = "csv" /\ Payload.v[2] = S("5$"))
                => (Encoded.val.v[2] = S("\"5$\""))

C15_Witness ==
    /\ Called("singleValueToJS")
    /\ Payload = Arr(<<Null, S("5$")>>)
    /\ lastOp.arg[2] = "timeofday"
    /\ lastOp.arg[3] = "js"
    /\ Encoded = Return(Arr(<<S("null"), S("'5$'")>>))

-----------------------------------------------------------------------------
\* the call encodes a value that is neither null, undefined nor an array
BareCall ==
    /\ Called("singleValueToJS")
    /\ ~isArray(Payload)
    /\ Payload.k \notin {"null", "undefined"}

-----------------------------------------------------------------------------
\* the decimal texts of the fields from..to of a date, separated by commas
FieldsText(date, from, to) ==
    Join([n \in 1..(to - from + 1) |-> ToString(date.v[from + n - 1])], ",")

\* C17: for a date value, type date encodes the year, month and day only
\* (the time of day is dropped), datetime encodes all six fields and
\* timeofday encodes the hour, minute and second only; a non-null value that
\* is not a date raises the type-mismatch error for each of the three types.
C17_DateFamilyEncodings ==
    (BareCall /\ lastOp.arg[2] \in {"date", "datetime", "timeofday"})
    => /\ (isDate(Payload) /\ lastOp.arg[2] = "date")
          => Encoded = Return(S("new Date(" \o FieldsText(Payload, 1, 3) \o ")"))
       /\ (isDate(Payload) /\ lastOp.arg[2] = "datetime")
          => Encoded = Return(S("new Date(" \o FieldsText(Payload, 1, 6) \o ")"))
       /\ (isDate(Payload) /\ lastOp.arg[2] = "timeofday")
          => Encoded = Return(S("[" \o FieldsText(Payload, 4, 6) \o "]"))
       /\ (Payload = DateV(<<2001, 1, 3, 4, 5, 6>>))
          => Encoded.val = S(CASE lastOp.arg[2] = "date" -> "new Date(2001,1,3)"
                               [] lastOp.arg[2] = "datetime" -> "new Date(2001,1,3,4,5,6)"
                               [] lastOp.arg[2] = "timeofday" -> "[4,5,6]")
       /\ ~isDate(Payload)
          => /\ ~lastOp.ok
             /\ Encoded.err \in {"Wrong type when expected Date",
                                 "Wrong type when expected datetime"}

C17_Witness ==
    /\ BareCall
    /\ lastOp.arg[2] = "date"
    /\ Payload = aDate
    /\ Encoded = Return(S("new Date(2010,0,2)"))

-----------------------------------------------------------------------------
\* what singleValueToJS(value, valueType) returns or throws for a bare value
BareEncoding(value, valueType) == singleValueToJS(value, valueType, "js")

\* C18: for an array cell, singleValueToJS raises an error when the length
\* is not 2 or 3, when a third element is present and is not a mapping, or
\* when the second element is neither null nor a string; otherwise it
\* returns the pair [encoding of element 0 against the declared type,
\* escaped element 1 or null], and a type mismatch of element 0 raises the
\* error the bare value raises.
C18_TupleFormCell ==
    (Called("singleValueToJS") /\ isArray(Payload) /\ lastOp.arg[3] = "js")
    => IF \/ Len(Payload.v) \notin {2, 3}
          \/ Len(Payload.v) = 3 /\ Payload.v[3].k # "object"
          \/ ~isString(Payload.v[2]) /\ Payload.v[2].k \notin {"null", "undefined"}
       THEN ~lastOp.ok
       ELSE IF ~BareEncoding(Payload.v[1], lastOp.arg[2]).ok
       THEN Encoded = BareEncoding(Payload.v[1], lastOp.arg[2])
       ELSE Encoded = Return(Arr(<<BareEncoding(Payload.v[1], lastOp.arg[2]).val,
                                   IF isString(Payload.v[2])
                                   THEN S(_escapeValue(Payload.v[2]))
                                   ELSE Null>>))

-----------------------------------------------------------------------------
\* literal is a quoted string literal whose delimiter does not occur between
\* the delimiters, and unescape(eval(literal)) is the string v
ReadsBackAs(literal, v) ==
    /\ Len(literal) >= 2
    /\ SubSeq(literal, 1, 1) \in {"'", "\""}
    /\ SubSeq(literal, Len(literal), Len(literal)) = SubSeq(literal, 1, 1)
    /\ IndexOf(SubSeq(literal, 2, Len(literal) - 1), SubSeq(literal, 1, 1)) = 0
    /\ evalLiteral(literal).ok
    /\ unescape(evalLiteral(literal).val) = v

\* C19: for every string v (with control characters, quotes, backslashes,
\* percent signs, characters outside ASCII), singleValueToJS(v, 'string') is
\* a well-formed quoted literal whose delimiter does not occur inside it, and
\* evaluating the literal and decoding its value with unescape gives v back;
\* the same holds of the formatted text of a cell [value, v].
C19_StringLiteralReadsBack ==
    (Called("singleValueToJS") /\ lastOp.arg[2] = "string" /\ lastOp.arg[3] = "js")
    => /\ isString(Payload)
          => /\ lastOp.ok
             /\ isString(Encoded.val)
             /\ ReadsBackAs(Encoded.val.v, Payload.v)
       /\ (isArray(Payload) /\ Len(Payload.v) = 2 /\ isString(Payload.v[2])
           /\ isString(Payload.v[1]))
          => /\ lastOp.ok
             /\ isString(Encoded.val.v[2])
             /\ ReadsBackAs(Encoded.val.v[2].v, Payload.v[2].v)

C19_Witness ==
    /\ Called("singleValueToJS")
    /\ lastOp.arg[2] = "string"
    /\ lastOp.arg[3] = "js"
    /\ Payload = S("'\"")
    /\ Encoded = Return(S("\"'%22\""))
    /\ unescape(evalLiteral(Encoded.val.v).val) = "'\""

-----------------------------------------------------------------------------
\* rows hold the rows of data in another order
SameRows(rows, data) ==
    /\ Len(rows) = Len(data)
    /\ \A r \in Range(data) :
           Cardinality({n \in DOMAIN rows : rows[n] = r})
           = Cardinality({n \in DOMAIN data : data[n] = r})

\* no row comes before a row that the column orders ahead of it
OrderedBy(rows, column, descending) ==
    \A i, j \in DOMAIN rows :
        (i < j) => IF descending
                   THEN ~lessThan(Cell(rows[i][1], column), Cell(rows[j][1], column))
                   ELSE ~lessThan(Cell(rows[j][1], column), Cell(rows[i][1], column))

\* C20: an orderBy that is one pair [columnId, direction] is one sort key:
\* preparedData returns the rows in descending order of the column for
\* 'desc' and in ascending order for 'asc', whatever the case of the token,
\* and raises an error for any other token; the pair is never read as two
\* column ids.
C20_PairIsOneSortKey ==
    (Called("preparedData") /\ Payload \in PairOrders)
    => IF toLowerCase(Payload.v[2].v) \in {"asc", "desc"}
       THEN /\ lastOp.ok
            /\ SameRows(lastOp.out, _data)
            /\ OrderedBy(lastOp.out, Payload.v[1].v,
                         toLowerCase(Payload.v[2].v) = "desc")
       ELSE ~lastOp.ok

-----------------------------------------------------------------------------
\* the keys of an orderBy as the claim reads them: a bare column id, or a
\* pair [id, direction]; <<id, descending>>
ClaimedKeys(orderBy) ==
    IF isString(orderBy) THEN << <<orderBy.v, FALSE>> >>
    ELSE [n \in DOMAIN orderBy.v |->
             IF isString(orderBy.v[n]) THEN <<orderBy.v[n].v, FALSE>>
             ELSE <<orderBy.v[n].v[1].v, orderBy.v[n].v[2].v = "desc">>]

RECURSIVE Precedes(_, _, _, _)
\* by the keys from number n on, row1 comes strictly before row2: the first
\* key on which their raw cells are not equal orders row1 first
Precedes(row1, row2, keys, n) ==
    IF n > Len(keys) THEN FALSE
    ELSE IF looseEquals(Cell(row1[1], keys[n][1]), Cell(row2[1], keys[n][1]))
    THEN Precedes(row1, row2, keys, n + 1)
    ELSE IF keys[n][2]
    THEN lessThan(Cell(row2[1], keys[n][1]), Cell(row1[1], keys[n][1]))
    ELSE lessThan(Cell(row1[1], keys[n][1]), Cell(row2[1], keys[n][1]))

NoOrder(orderBy) == IsNullish(orderBy) \/ orderBy = Arr(<<>>)

\* C21: for an orderBy that is a list of keys, the rows come out ordered by
\* the first key, rows equal on it by the second key, and so on, each key
\* ascending as a bare id or with 'asc' and descending with 'desc': no row
\* comes after a row that the keys order strictly behind it; with no orderBy
\* (absent, null, empty) the rows come out in insertion order; the rows
\* rendered by toJSON are in that order; raw cell values are compared.
C21_RowsOrderedByKeys ==
    /\ (Called("preparedData") /\ Payload \in KeyLists)
       => /\ lastOp.ok
          /\ SameRows(lastOp.out, _data)
          /\ NoOrder(Payload) => (lastOp.out = _data)
          /\ ~NoOrder(Payload)
             => \A i, j \in DOMAIN lastOp.out :
                    (i < j) => ~Precedes(lastOp.out[j], lastOp.out[i],
                                         ClaimedKeys(Payload), 1)
    /\ (Called("toJSON") /\ lastOp.arg[2] \in KeyLists)
       => /\ lastOp.ok
          /\ lastOp.out = toJSON(_columns, preparedData(_data, lastOp.arg[2]).val,
                                 customProperties, lastOp.arg[1], Null).val

-----------------------------------------------------------------------------
(* C22: the slots of a row of toJSON *)

\* the entry a cell's slot holds by its value alone: nothing for an absent or
\* null cell of a column that is not the last, {v:null} for one of the last
\* column, and the encoded value for any other cell
ClaimedSlot(value, valueType, isLast) ==
    IF IsNullish(value) THEN Return(IF isLast THEN "{v:null}" ELSE "")
    ELSE IF isArray(value)
    THEN jsonCellOf(value, singleValueToJS(value, valueType, "js"), TRUE)
    ELSE IF ~singleValueToJS(value, valueType, "js").ok
    THEN singleValueToJS(value, valueType, "js")
    ELSE Return("{v:" \o JSString(singleValueToJS(value, valueType, "js").val) \o "}")

ClaimedSlots(columns, row, order) ==
    Collect([n \in DOMAIN order |->
                ClaimedSlot(Cell(row, ToKey(order[n])), colDict(columns, order[n]).type,
                            ToKey(order[n]) = ToKey(order[Len(order)]))])

\* the text of the table with every slot filled by ClaimedSlot
ClaimedJSON(columns, tableProperties, order, rows) ==
    jsonTable(columns, tableProperties, order,
              Collect([n \in DOMAIN rows |->
                          jsonRowOf(ClaimedSlots(columns, rows[n][1], order), rows[n][2])]),
              rows)

\* the cell is a value that is not null, yet false in a condition
IsFalsyValue(value) == ~IsNullish(value) /\ ~Truthy(value)

\* C22: toJSON leaves a slot empty exactly for an absent or null cell of a
\* column that is not the last of the column order, renders {v:null} for such
\* a cell of the last column, and renders every other cell, 0 and false
\* included, with its encoded value whatever the column's position
C22_EmptySlotOnlyForNull ==
    (Called("toJSON") /\ lastOp.ok)
        => lastOp.out = ClaimedJSON(_columns, customProperties,
                                    orderOf(_columns, lastOp.arg[1]),
                                    preparedData(_data, lastOp.arg[2]).val).val

-----------------------------------------------------------------------------
(* C23: the entry of a cell given as [value, formatted, properties] *)

\* the entry by the cell's parts: v, then f, then p
ClaimedEntryOf(value, js) ==
    IF ~js.ok THEN js
    ELSE Return("{v:" \o JSString(js.val.v[1])
                   \o (IF Len(value.v) = 2 \/ ~IsNullish(value.v[2])
                       THEN ",f:" \o JSString(js.val.v[2]) ELSE "")
                   \o (IF Len(value.v) = 3
                       THEN ",p:" \o _escapeCustomProperties(value.v[3]) ELSE "")
                   \o "}")

ClaimedEntry(value, valueType, isLast) ==
    IF isArray(value) THEN ClaimedEntryOf(value, singleValueToJS(value, valueType, "js"))
    ELSE jsonCellOf(value, singleValueToJS(value, valueType, "js"), isLast)

ClaimedEntries(columns, row, order) ==
    Collect([n \in DOMAIN order |->
                ClaimedEntry(Cell(row, ToKey(order[n])), colDict(columns, order[n]).type,
                             ToKey(order[n]) = ToKey(order[Len(order)]))])

\* the text of the table with every tuple-form cell rendered by ClaimedEntry
EntriesJSON(columns, tableProperties, order, rows) ==
    jsonTable(columns, tableProperties, order,
              Collect([n \in DOMAIN rows |->
                          jsonRowOf(ClaimedEntries(columns, rows[n][1], order), rows[n][2])]),
              rows)

\* the row holds a cell [value, text, properties] whose text is not null
HasFormattedTriple(row) ==
    \E key \in DOMAIN row[1] :
        /\ isArray(row[1][key]) /\ Len(row[1][key].v) = 3
        /\ ~IsNullish(row[1][key].v[2])

\* C23: toJSON renders a cell given as a tuple as one entry {v:..,f:..,p:..}:
\* v the encoded value, f the escaped formatted text (for a pair, and for a
\* triple whose text is not null), p the escaped properties (for a triple)
C23_TupleCellEntry ==
    (Called("toJSON") /\ lastOp.ok)
        => lastOp.out = EntriesJSON(_columns, customProperties,
                                    orderOf(_columns, lastOp.arg[1]),
                                    preparedData(_data, lastOp.arg[2]).val).val

-----------------------------------------------------------------------------
(* C24: the order of the statements of toJSCode *)

StartsWith(s, prefix) == Len(s) >= Len(prefix) /\ SubSeq(s, 1, Len(prefix)) = prefix

\* the statements of a script: its lines, without the empty text after the
\* last line break
Statements(script) == SubSeq(Split(script, "\n"), 1, Len(Split(script, "\n")) - 1)

\* how the statements of column n of the order begin
ColumnHeads(name, column, n) ==
    <<name \o ".addColumn('" \o column.type \o "', ">>
        \o (IF hasProperties(column.custom_properties)
            THEN <<name \o ".setColumnProperties(" \o ToString(n - 1) \o ", ">>
            ELSE <<>>)

\* how the statements of the row at position i of the rendered rows begin
RowHeads(name, row, order, i) ==
    Concat([j \in DOMAIN order |->
               IF IsNullish(Cell(row[1], ToKey(order[j]))) THEN <<>>
               ELSE <<name \o ".setCell(" \o ToString(i - 1) \o ", "
                         \o ToString(j - 1) \o ", ">>])
        \o (IF hasProperties(row[2])
            THEN <<name \o ".setRowProperties(" \o ToString(i - 1) \o ", ">>
            ELSE <<>>)

\* how the statements of the whole script begin, in order
ScriptHeads(name, columns, tableProperties, order, rows, stored) ==
    <<"var " \o name \o " = new google.visualization.DataTable();">>
        \o (IF hasProperties(tableProperties)
            THEN <<name \o ".setTableProperties(">> ELSE <<>>)
        \o Concat([n \in DOMAIN order |-> ColumnHeads(name, colDict(columns, order[n]), n)])
        \o <<name \o ".addRows(" \o ToString(stored) \o ");">>
        \o Concat([i \in DOMAIN rows |-> RowHeads(name, rows[i], order, i)])

StatementsBegin(statements, heads) ==
    /\ Len(statements) = Len(heads)
    /\ \A n \in DOMAIN statements : StartsWith(statements[n], heads[n])

\* C24: the script of toJSCode is, in this order: the creation of the table,
\* setTableProperties when the table has properties, an addColumn per column
\* of the column order with its setColumnProperties next to it, one addRows
\* with the number of stored rows, then per rendered row a setCell for every
\* cell that is not null or absent, in column order and indexed by the
\* positions in the rendered rows and in the column order, and the row's
\* setRowProperties after them
C24_StatementOrder ==
    (Called("toJSCode") /\ lastOp.ok)
        => StatementsBegin(Statements(lastOp.out),
                           ScriptHeads(Payload, _columns, customProperties,
                                       orderOf(_columns, lastOp.arg[2]),
                                       preparedData(_data, lastOp.arg[3]).val,
                                       Len(_data)))

\* a script of two rows rendered in another order than stored, under a chosen
\* column order, with table, column and row properties
C24_Witness ==
    /\ Called("toJSCode") /\ lastOp.ok
    /\ ~IsNullish(lastOp.arg[2]) /\ ~IsNullish(lastOp.arg[3])
    /\ Len(_data) = 2
    /\ preparedData(_data, lastOp.arg[3]).val # _data
    /\ hasProperties(customProperties)
    /\ hasProperties(_data[1][2])
    /\ \E key \in DOMAIN _data[1][1] : IsNullish(_data[1][1][key])
    /\ \E n \in DOMAIN lastOp.arg[2].v :
           hasProperties(colDict(_columns, lastOp.arg[2].v[n]).custom_properties)

-----------------------------------------------------------------------------
(* C25: toResponse answers as the renderer tqx asks for *)

\* the options of tqx, and the value tqx gives to a key: that of the last
\* option with the key, the default without one
OptionsOf(tqx) == IF tqx.v = "" THEN <<>> ELSE Split(tqx.v, ";")

IsKeyValue(option) == Len(Split(option, ":")) = 2

RECURSIVE Requested(_, _, _)
Requested(options, key, default) ==
    IF Len(options) = 0 THEN default
    ELSE IF Split(options[Len(options)], ":")[1] = key
    THEN Str(Split(options[Len(options)], ":")[2])
    ELSE Requested(SubSeq(options, 1, Len(options) - 1), key, default)

\* the call returned what the render r returned, or raised what it raised
Returned(r) == lastOp.ok = r.ok /\ lastOp.out = r.val /\ _data = r.data

\* what toResponse(columnOrder, orderBy, tqx) answers for well-formed options
AnswersAs(columnOrder, orderBy, options, out) ==
    IF Requested(options, "version", Str("0.6")).v # "0.6" THEN ~lastOp.ok
    ELSE IF out = "json"
    THEN Returned(toJSONResponse(_columns, prevData, customProperties, columnOrder, orderBy,
                      Requested(options, "reqId", Num(0)),
                      Requested(options, "responseHandler",
                                Str("google.visualization.Query.setResponse"))))
    ELSE IF out = "csv" THEN Returned(toCSV(_columns, prevData, columnOrder, orderBy, ", "))
    ELSE IF out = "html" THEN Returned(toHTML(_columns, prevData, columnOrder, orderBy))
    ELSE IF out = "tsv-excel"
    THEN Returned(toTSVExcel(_columns, prevData, columnOrder, orderBy))
    ELSE ~lastOp.ok

\* C25: toResponse returns what toJSONResponse returns with the reqId and
\* responseHandler of tqx (0 and google.visualization.Query.setResponse by
\* default) when out is json or not given, what toCSV, toHTML, toTSVExcel
\* return for out csv, html, tsv-excel, and raises for another version than
\* 0.6, another out, or an option that is not key:value
C25_ResponseByOut ==
    Called("toResponse")
        => IF \E n \in DOMAIN OptionsOf(lastOp.arg[3]) :
                  ~IsKeyValue(OptionsOf(lastOp.arg[3])[n])
           THEN ~lastOp.ok
           ELSE AnswersAs(lastOp.arg[1], lastOp.arg[2], OptionsOf(lastOp.arg[3]),
                          Requested(OptionsOf(lastOp.arg[3]), "out", Str("json")).v)

\* a json response of a table with rows, with reqId and handler from tqx
C25_Witness ==
    /\ Called("toResponse") /\ lastOp.ok
    /\ lastOp.arg[3] = S("reqId:7;responseHandler:cb")
    /\ Len(_data) = 2
    /\ StartsWith(lastOp.out, "cb({'version':'0.6', 'reqId':'7', 'status':'OK', 'table': {cols:")

-----------------------------------------------------------------------------
(* C26: the escaper of delimited text *)

RECURSIVE CountOf(_, _)
CountOf(s, c) ==
    IF Len(s) = 0 THEN 0
    ELSE (IF SubSeq(s, 1, 1) = c THEN 1 ELSE 0) + CountOf(SubSeq(s, 2, Len(s)), c)

\* the field is the text between double quotes, its inner double quotes doubled
IsQuotedField(field, text) ==
    /\ Len(field) >= 2
    /\ SubSeq(field, 1, 1) = "\"" /\ SubSeq(field, Len(field), Len(field)) = "\""
    /\ CountOf(field, "\"") = 2 + 2 * CountOf(text, "\"")
    /\ Len(field) = 2 + Len(text) + CountOf(text, "\"")

\* C26: the escaper of delimited text puts the string between double quotes
\* and doubles every double quote of it: k double quotes in the string give
\* 2k between the delimiters, for every k
C26_EveryQuoteDoubled ==
    (Called("singleValueToJS") /\ lastOp.arg[3] = "csv" /\ lastOp.arg[2] = "string"
        /\ isString(Payload))
        => /\ Encoded.ok
           /\ isString(Encoded.val)
           /\ IsQuotedField(Encoded.val.v, Payload.v)

-----------------------------------------------------------------------------
(* C29: the escaping function and the value of a tuple-form cell *)

\* the call encodes a pair [s, f] of strings as a string cell
StringPairCall ==
    /\ Called("singleValueToJS") /\ lastOp.arg[2] = "string"
    /\ isArray(Payload) /\ Len(Payload.v) = 2
    /\ isString(Payload.v[1]) /\ isString(Payload.v[2])

\* C29: singleValueToJS applies the escaping function it is given to the
\* value of a tuple-form cell too: the first component of the encoding of
\* [s, f] is the encoding of the bare s under the same escaping function
C29_TupleValueEscapedAlike ==
    StringPairCall
        => /\ Encoded.ok
           /\ isArray(Encoded.val)
           /\ Return(Encoded.val.v[1]) = singleValueToJS(Payload.v[1], "string", lastOp.arg[3])

-----------------------------------------------------------------------------
(* C27: tableDescriptionParser and the description it is given *)

\* C27: tableDescriptionParser leaves the description it is given unchanged:
\* parsing one description value twice gives equal column lists
C27_DescriptionUnchanged ==
    (Called("tableDescriptionParser twice") /\ lastOp.ok)
        => /\ lastOp.out[3] = Payload
           /\ lastOp.out[2] = lastOp.out[1]

-----------------------------------------------------------------------------
(* C28: sorting keeps the cells *)

\* C28: with an orderBy, preparedData gives the stored rows in another order,
\* every cell the value it was and of the kind it was, dates included, so a
\* table that renders without an orderBy renders with one
C28_SortedRowsKeepCells ==
    /\ (Called("preparedData") /\ ~IsNullish(Payload) /\ lastOp.ok)
           => SameRows(lastOp.out, _data)
    /\ (Called("toJSON") /\ ~IsNullish(lastOp.arg[2]))
           => (toJSON(_columns, _data, customProperties, lastOp.arg[1], Null).ok
                  => lastOp.ok)
    /\ (Called("toJSCode") /\ ~IsNullish(lastOp.arg[3]))
           => (toJSCode(_columns, _data, customProperties, Payload, lastOp.arg[2], Null).ok
                  => lastOp.ok)

-----------------------------------------------------------------------------
(* C30: the binder stays inside the columns *)

\* every column above the last column's depth is the only one of its depth
\* and is bound to a mapping
OuterColumnsAreKeys(columns) ==
    \A n \in DOMAIN columns :
        (columns[n].depth < columns[Len(columns)].depth)
            => /\ columns[n].container = "dict"
               /\ \A m \in DOMAIN columns : (columns[m].depth = columns[n].depth) => (m = n)

\* C30: during an appendData on a constructed table the binder reads no
\* column at an index at or past the number of columns: the columns above the
\* last depth are single mapping keys, so each step to the next column finds
\* one, and the sequence loop tests the index before each assignment
C30_ReadsInsideColumns ==
    /\ OuterColumnsAreKeys(_columns)
    /\ Called("appendData")
           => \A index \in appendReads(_columns, Payload) :
                  index >= 0 /\ index < Len(_columns)

\* an appendData that went down a mapping to a sequence with too many
\* elements for the columns
C30_Witness ==
    /\ Called("appendData")
    /\ ~lastOp.ok
    /\ lastOp.out = "Too many elements given in data"
    /\ _columns[1].depth < _columns[Len(_columns)].depth
    /\ Len(_columns) - 1 \in appendReads(_columns, Payload)

====
